---- MODULE Spec2Model ----
(***************************************************************************)
(* Deduplication and regeneration pipeline of VBVR-DataFactory.            *)
(*                                                                         *)
(* Several task invocations (Lambda executions) run concurrently.  Each    *)
(* owns its scratch directory; the only state they share is the DynamoDB   *)
(* dedup table.  One invocation is modelled from the point where            *)
(* _process_samples has renamed the samples of a domain-task directory     *)
(* (handler.py line 319) to the point where the surviving sample ids are   *)
(* handed to the uploader (line 336).                                      *)
(*                                                                         *)
(* A sample id is the integer whose decimal string the code uses; the      *)
(* code only compares sample ids for equality.  The table is read with     *)
(* the consistency the code relies on: a lookup that follows a failed      *)
(* conditional put sees the item that made it fail.                        *)
(***************************************************************************)
EXTENDS Integers, Sequences, FiniteSets, TLC

\* ------------------------------------------------------------- bounds
MaxSamples == 2
MaxCandidates == 2
MaxRecords == 2
MaxNumSamples == 4
MaxSplitSize == 2
MaxTaskDirs == 2

\* -------------------------------------------------- program constants
MAX_THROTTLE_RETRIES == 3
MAX_DEDUP_RETRIES == 3

\* ------------------------------------------------------------- inputs
Tasks == {"t1", "t2"}
Hashes == {"h1", "h2"}
None == "None"
Absent == "absent"
NoMetadata == "no_metadata"
Empty == "empty"
\* What a sample directory can hold: no file at all, artifacts without a
\* metadata.json, or artifacts and a metadata.json whose param_hash is the
\* given string ("" is an empty param_hash).  The directories that got an id
\* have an artifact; the generator of a regeneration can leave any directory.
InitContents == Hashes \cup {NoMetadata}
RegenContents == {"h1", "", Empty}
\* The task messages the deployment receives.  Invocation t1 processes the
\* first of them, the other invocation any of them (a re-delivery of the
\* same message included).
FirstMessage == [type |-> "g1", start_index |-> 10, dedup |-> TRUE]
Messages ==
    { [type |-> "g1", start_index |-> 10, dedup |-> TRUE],
      [type |-> "g1", start_index |-> 11, dedup |-> TRUE],
      [type |-> "g2", start_index |-> 10, dedup |-> TRUE],
      [type |-> "g1", start_index |-> 10, dedup |-> FALSE] }
\* The ClientError codes the table answers with, besides the conditional-check
\* conflict: one that check_and_register takes for throttling, one it does not.
ErrorCodes == {"ThrottlingException", "InternalServerError"}
NoSampleId == 0 - 1
NoCall == [param_hash |-> None, sample_id |-> NoSampleId, attempt |-> 0,
           slept |-> <<>>, outcome |-> "none"]

VARIABLES
    registry,          \* the dedup table: a set of items
    dedup_table_name,  \* config.dedup_table_name is set
    task,              \* the TaskMessage of each invocation
    renamed,           \* ids returned by rename_samples
    dirs,              \* domain_task_dir / sample_id -> content or Absent
    pc,
    round_num,
    pending,
    idx,               \* position of the for loop in pending
    unique_samples,
    duplicates,
    total_retries,
    call,              \* frame of the running check_and_register call
    regen_attempt,     \* attempt of _batch_regenerate
    error,             \* the exception that ended the invocation
    result_ids,        \* renamed after the dedup stage, and as rename_samples
                       \* returned it for a later *_task directory
    uploaded,          \* sample directories handed to uploader.upload_samples
    last_call,         \* external call made by the invocation's latest step
    new_sample_dirs,   \* what the regeneration made by the latest step found
    produced_dirs,     \* the sample tree as rename_samples returned it
                       \* (kept where a task is delivered twice)
    later_dirs,        \* the *_task directories rglob yields after the
                       \* first, each as the contents of its samples
    task_dir_idx       \* how many of them the loop of line 314 has reached

dedup_vars == <<registry, dedup_table_name, task, renamed, dirs, pc,
                round_num, pending, idx, unique_samples, duplicates, total_retries,
                call, regen_attempt, error, result_ids, uploaded, last_call,
                new_sample_dirs, produced_dirs, later_dirs, task_dir_idx>>

\* State of process_task and upload_directory_to_s3 of src/lambda_handler.py,
\* from the point where the generator has written its output.
VARIABLES
    start_index,       \* task.get('start_index', 0)
    generated,         \* the output tree as the generator left it
    tree,              \* the output tree on disk
    bucket,            \* the S3 keys written, as <<sample_id, relative path>>
    domain_idx,        \* position of the loop over domain-task directories
    task_dirs,         \* the sorted listing of the current domain-task directory
    dir_idx,           \* position of the loop over task_dirs
    local_index,
    found_any,
    global_task_id,
    mapping,           \* the "Mapping local task ... to global ID ..." lines
    uploaded_samples,
    to_upload,         \* files the first pass of the upload has yet to visit
    upload_count,
    files_to_delete,
    del_idx,           \* position of the second pass in files_to_delete
    step,              \* control position of process_task
    raised,            \* the exception that left process_task
    task_result,       \* the value process_task returned
    legacy_records,    \* the records of the event handler has yet to reach
    legacy_results,    \* handler's list `results`
    listing_errors     \* the "Error listing task dirs in ..." lines

legacy_vars == <<start_index, generated, tree, bucket, domain_idx, task_dirs,
                 dir_idx, local_index, found_any, global_task_id, mapping,
                 uploaded_samples, to_upload, upload_count, files_to_delete,
                 del_idx, step, raised, task_result, legacy_records,
                 legacy_results, listing_errors>>

\* State of handler of handler.py, lines 45-58.
VARIABLES
    records,           \* event.get("Records", [event])
    record_idx,        \* position of the loop over records
    effects,           \* generator runs, registry writes and uploads made
    results,
    handler_step,      \* control position of handler
    exception,         \* the exception that left handler
    dirs_to_visit      \* *_task directories with renamed samples that the
                       \* loop of line 314 has yet to reach for the record

handler_vars == <<records, record_idx, effects, results, handler_step, exception,
                  dirs_to_visit>>

\* State of one process_task of handler.py, lines 61-91 and 272-367.
VARIABLES
    received,          \* the TaskMessage as process_task got it
    task_msg,          \* the TaskMessage object `task`
    generator_output,  \* what the generator of this task leaves
    domain_task_dirs,  \* its *_task directories in rglob order: for each,
                       \* the number of samples rename_samples renames
    task_dir_pos,      \* how many of them the loop of line 314 has reached
    found_any_task_dir,
    output_dir,        \* the scratch directory /tmp/output_<type>_<pid>
    renamed_count,     \* samples that got an id
    kept_count,        \* samples left after the dedup stage
    generator_runs,    \* calls of runner.run
    registry_calls,    \* samples passed to check_and_register
    stored,            \* samples uploaded
    process_step,      \* control position of process_task
    process_error,     \* the exception that left process_task
    process_result     \* the TaskResult returned

process_vars == <<received, task_msg, generator_output, output_dir, renamed_count,
                  kept_count, generator_runs, registry_calls, stored,
                  process_step, process_error, process_result,
                  domain_task_dirs, task_dir_pos, found_any_task_dir>>

\* State of one run of src/scripts/update_dlq_seeds.py.
VARIABLES
    options,           \* what main passes on: split, split_size, flags
    dlq_before,        \* the files of the DLQ directory at the start
    dlq_files,         \* the files of the DLQ directory
    json_files,        \* the message files found by glob
    file_idx,          \* position of the loop over json_files
    split_messages,    \* the messages generated for the current file
    write_idx,         \* position of the loop over split_messages
    dlq_step,          \* control position of the run
    split_count,
    total_new_messages,
    updated_count,
    skipped_count

dlq_vars == <<options, dlq_before, dlq_files, json_files, file_idx,
              split_messages, write_idx, dlq_step, split_count,
              total_new_messages, updated_count, skipped_count>>

\* State of one call of _batch_regenerate, statement by statement.
VARIABLES
    duplicate_ids,     \* the ids the call was given
    target_dirs,       \* domain_task_dir / sample_id -> content or Absent
    batch_attempt,     \* the loop variable of line 122
    retry_seed,        \* new_seed of the running attempt
    scratch,           \* the seeds whose retry_output_dir exists
    created,           \* the seeds whose retry_output_dir this call had made
    retry_dirs,        \* new_sample_dirs of the running attempt
    install_idx,       \* position of the loop of line 153
    leaving,           \* how the running attempt leaves its try block
    batch_step         \* control position of the call

batch_vars == <<duplicate_ids, target_dirs, batch_attempt, retry_seed, scratch,
                created, retry_dirs, install_idx, leaving, batch_step>>

vars == <<dedup_vars, legacy_vars, handler_vars, process_vars, dlq_vars,
          batch_vars>>

\* ------------------------------------------------------------ helpers
Range(s) == {s[i] : i \in 1..Len(s)}

SeqsUpTo(S, lo, hi) == UNION {[1..n -> S] : n \in lo..hi}

\* --------------------------------------------------------- dedup table
Item(generator_name, param_hash, sample_id) ==
    [generator_name |-> generator_name, param_hash |-> param_hash,
     sample_id |-> sample_id]

SameKey(a, b) ==
    a.generator_name = b.generator_name /\ a.param_hash = b.param_hash

\* Mutant: the put is not conditional.
ConditionExpression_Missing(table, item) == TRUE

\* Mutant: the condition also compares the sample_id.
ConditionExpression_PerSample(table, item) ==
    ~ \E r \in table : SameKey(r, item) /\ r.sample_id = item.sample_id

\* ConditionExpression of put_item: no item with this key exists.
ConditionExpression(table, item) ==
    ~ \E r \in table : SameKey(r, item)

\* A DynamoDB put replaces the item stored under the same primary key.
\* Mutant: put_item reports success and stores nothing.
TablePut_Dropped(table, item) == table

TablePut(table, item) ==
    {r \in table : ~ SameKey(r, item)} \cup {item}

\* resp.get("Item", {}).get("sample_id"); NoSampleId stands for Python's None.
GetSampleId(table, generator_name, param_hash) ==
    LET found == {r \in table : r.generator_name = generator_name
                                /\ r.param_hash = param_hash}
    IN  IF found = {} THEN NoSampleId ELSE (CHOOSE r \in found : TRUE).sample_id

\* Mutant: any existing record counts as the caller's.
IsOwnedBy_AnyOwner(table, generator_name, param_hash, sample_id) ==
    GetSampleId(table, generator_name, param_hash) # NoSampleId

\* Mutant: a conflict is always a duplicate.
IsOwnedBy_Never(table, generator_name, param_hash, sample_id) == FALSE

IsOwnedBy(table, generator_name, param_hash, sample_id) ==
    GetSampleId(table, generator_name, param_hash) = sample_id

\* Mutant: every ClientError is taken for throttling.
IsThrottle_AnyError(code) == TRUE

IsThrottle(code) ==
    code \in {"ProvisionedThroughputExceededException", "ThrottlingException"}

\* Mutant: linear instead of exponential backoff.
Wait_Linear(attempt) == 2 * attempt

\* wait = 2**attempt
Wait(attempt) == 2 ^ attempt

\* ------------------------------------------------------ handler helpers
ReadParamHash(content) ==
    IF content \in {NoMetadata, Empty} THEN None ELSE content

\* Mutant: "if param_hash is None".
Falsy_NoneOnly(param_hash) == param_hash = None

\* "if not param_hash"
Falsy(param_hash) == param_hash = None \/ param_hash = ""

CurrentSample(t) == pending[t][idx[t]]

\* The Item of the put_item of the running call.
CurrentItem(t) ==
    Item(task[t].type, call[t].param_hash, call[t].sample_id)

\* The frame of _dedup_samples is gone: the function returned, or an
\* exception left it.
Unwound(t) ==
    /\ pending' = [pending EXCEPT ![t] = <<>>]
    /\ idx' = [idx EXCEPT ![t] = 1]
    /\ unique_samples' = [unique_samples EXCEPT ![t] = <<>>]
    /\ duplicates' = [duplicates EXCEPT ![t] = <<>>]
    /\ round_num' = [round_num EXCEPT ![t] = 0]
    /\ total_retries' = [total_retries EXCEPT ![t] = 0]
    /\ regen_attempt' = [regen_attempt EXCEPT ![t] = 0]

\* An exception leaves check_and_register; nothing in _dedup_samples,
\* _process_samples, process_task or handler catches it.  The frame of the
\* failed call is kept as the record of what it did.
Raises(t, code) ==
    /\ error' = [error EXCEPT ![t] = code]
    /\ pc' = [pc EXCEPT ![t] = "failed"]
    /\ Unwound(t)

\* ------------------------------------------- src/lambda_handler.py
\* The names of n sample directories as the generators write them.
Names(n) == {<<"0", "1", "2", "3">>[i] : i \in 1..n}

\* Lines 174-175: [int(x) for x in re.findall(r'\d+', name)].
Numbers(name) ==
    CASE name = "0" -> <<0>>
      [] name = "1" -> <<1>>
      [] name = "2" -> <<2>>
      [] name = "3" -> <<3>>
      [] OTHER -> <<>>

\* get_sort_key, lines 169-179: the last number of the name, or the name
\* itself when it holds none.
GetSortKey(name) ==
    IF Numbers(name) # <<>> THEN Numbers(name)[Len(Numbers(name))] ELSE name

\* The order of Python's str on the names without a digit.
StrRank(name) ==
    CASE name = "aa" -> 1
      [] name = "notes" -> 2
      [] name = "zz" -> 3

\* key(x) < key(y) as list.sort evaluates it, for two keys of one type.
KeyLess(x, y) ==
    IF Numbers(x) # <<>>
    THEN GetSortKey(x) < GetSortKey(y)
    ELSE StrRank(GetSortKey(x)) < StrRank(GetSortKey(y))

\* Line 181: the keys are an int and a str, and comparing them raises
\* TypeError.
SortRaises(s) ==
    \E i \in 1..Len(s), j \in 1..Len(s) :
        Numbers(s[i]) # <<>> /\ Numbers(s[j]) = <<>>

\* Path.suffix of the file names the model uses.
Suffix(file) ==
    CASE file = "a.png" -> ".png"
      [] file = "b.mp4" -> ".mp4"
      [] file = "c.txt" -> ".txt"
      [] file = "m.json" -> ".json"

\* An entry of a domain-task directory: a sample directory with its files
\* in the order rglob yields them, a plain file, or nothing.
NoEntry == [kind |-> "absent", files |-> <<>>]
PlainFile == [kind |-> "file", files |-> <<>>]
Directory(files) == [kind |-> "dir", files |-> files]

Entries ==
    {PlainFile}
    \cup {Directory(f) : f \in {<<>>, <<"m.json">>, <<"a.png">>,
                                 <<"c.txt", "m.json">>, <<"a.png", "b.mp4">>}}

\* The orders in which iterdir can list the names of N.
ListingsOf(N) ==
    {l \in [1..Cardinality(N) -> N] :
        \A i \in DOMAIN l, j \in DOMAIN l : l[i] = l[j] => i = j}

\* Domain-task directories with names that hold no digit, alone or next to
\* a sample directory "0"; each entry is a plain file or a sample.
OtherDomains ==
    UNION {{[listing |-> l, entries |-> e] :
               l \in ListingsOf(N),
               e \in [N -> {PlainFile, Directory(<<"a.png">>)}]} :
           N \in {{"aa", "zz"}, {"0", "notes"}}}

\* The output trees: one domain-task directory with up to MaxCandidates
\* entries and possibly a second one with one sample directory, with or
\* without a media file, in the order rglob meets them.
FirstDomains ==
    UNION {{[listing |-> l, entries |-> e] :
               l \in ListingsOf(Names(n)), e \in [Names(n) -> Entries]} :
           n \in 1..MaxCandidates}

SecondDomains ==
    {[listing |-> <<"0">>, entries |-> e] :
        e \in [Names(1) -> {Directory(<<"a.png">>), Directory(<<"m.json">>)}]}

StartIndexes == {0, 10}

\* list.sort(key=get_sort_key), line 181: a stable sort, for keys of one
\* type.
RECURSIVE Insert(_, _)
Insert(x, s) ==
    IF s = <<>> THEN <<x>>
    ELSE IF KeyLess(x, Head(s)) THEN <<x>> \o s
    ELSE <<Head(s)>> \o Insert(x, Tail(s))

RECURSIVE SortByKey(_)
SortByKey(s) ==
    IF s = <<>> THEN <<>>
    ELSE Insert(s[Len(s)], SortByKey(SubSeq(s, 1, Len(s) - 1)))

\* Lines 195-207: the directory has a *.png, *.txt or *.mp4 file.
HasFiles(entry) ==
    \E i \in 1..Len(entry.files) : Suffix(entry.files[i]) \in {".png", ".txt", ".mp4"}

\* Path.rmdir inside "try: ... except: pass" (lines 215-218, 246-251): only
\* a directory without files is removed.
Rmdir(entry) ==
    IF entry.kind = "dir" /\ entry.files = <<>> THEN NoEntry ELSE entry

\* Path.unlink of one file of a directory.
Unlink(entry, file) ==
    [entry EXCEPT !.files = SelectSeq(@, LAMBDA f : f # file)]

NoResult == [returned |-> FALSE, samples_uploaded |-> 0, sample_ids |-> <<>>]

CurrentName == task_dirs[dir_idx]

CurrentEntry == tree[domain_idx].entries[CurrentName]

\* No process_task of src/lambda_handler.py takes part.
LegacyIdle ==
    /\ start_index = 0
    /\ generated = <<>>
    /\ tree = <<>>
    /\ bucket = {}
    /\ domain_idx = 0
    /\ task_dirs = <<>>
    /\ dir_idx = 1
    /\ local_index = 0
    /\ found_any = FALSE
    /\ global_task_id = 0
    /\ mapping = <<>>
    /\ uploaded_samples = <<>>
    /\ to_upload = <<>>
    /\ upload_count = 0
    /\ files_to_delete = <<>>
    /\ del_idx = 1
    /\ step = "idle"
    /\ legacy_records = <<>>
    /\ legacy_results = <<>>
    /\ listing_errors = <<>>
    /\ raised = "none"
    /\ task_result = NoResult

\* No call of _batch_regenerate is followed statement by statement.
BatchIdle ==
    /\ duplicate_ids = <<>>
    /\ target_dirs = <<>>
    /\ batch_attempt = 0
    /\ retry_seed = 0
    /\ scratch = {}
    /\ created = {}
    /\ retry_dirs = <<>>
    /\ install_idx = 1
    /\ leaving = "none"
    /\ batch_step = "idle"

\* No run of update_dlq_seeds.py takes part.
DlqIdle ==
    /\ options = [split |-> FALSE, split_size |-> 1, update_seed |-> FALSE,
                  backup |-> FALSE, dry_run |-> FALSE]
    /\ dlq_before = {}
    /\ dlq_files = {}
    /\ json_files = <<>>
    /\ file_idx = 1
    /\ split_messages = <<>>
    /\ write_idx = 1
    /\ dlq_step = "idle"
    /\ split_count = 0
    /\ total_new_messages = 0
    /\ updated_count = 0
    /\ skipped_count = 0

\* "seed" of a TaskMessage without a seed (None).
NoSeed == 0 - 1

\* No TaskResult was returned.
NoTaskResult == [returned |-> FALSE, samples_uploaded |-> 0]

\* No process_task of handler.py takes part.
ProcessIdle ==
    /\ received = [seed |-> NoSeed, dedup |-> FALSE]
    /\ task_msg = [seed |-> NoSeed, dedup |-> FALSE]
    /\ generator_output = "missing"
    /\ domain_task_dirs = <<>>
    /\ task_dir_pos = 0
    /\ found_any_task_dir = FALSE
    /\ output_dir = "missing"
    /\ renamed_count = 0
    /\ kept_count = 0
    /\ generator_runs = 0
    /\ registry_calls = 0
    /\ stored = 0
    /\ process_step = "idle"
    /\ process_error = "none"
    /\ process_result = NoTaskResult

\* No handler of handler.py takes part.
HandlerIdle ==
    /\ records = <<>>
    /\ record_idx = 1
    /\ effects = <<>>
    /\ results = <<>>
    /\ handler_step = "idle"
    /\ exception = "none"
    /\ dirs_to_visit = 0

\* No invocation of the dedup pipeline takes part.
DedupIdle ==
    /\ registry = {}
    /\ dedup_table_name = FALSE
    /\ task = [t \in Tasks |-> FirstMessage]
    /\ renamed = [t \in Tasks |-> <<>>]
    /\ dirs = [t \in Tasks |-> <<>>]
    /\ pc = [t \in Tasks |-> "idle"]
    /\ round_num = [t \in Tasks |-> 0]
    /\ pending = [t \in Tasks |-> <<>>]
    /\ idx = [t \in Tasks |-> 1]
    /\ unique_samples = [t \in Tasks |-> <<>>]
    /\ duplicates = [t \in Tasks |-> <<>>]
    /\ total_retries = [t \in Tasks |-> 0]
    /\ call = [t \in Tasks |-> NoCall]
    /\ regen_attempt = [t \in Tasks |-> 0]
    /\ error = [t \in Tasks |-> "none"]
    /\ result_ids = [t \in Tasks |-> <<>>]
    /\ uploaded = [t \in Tasks |-> <<>>]
    /\ last_call = [t \in Tasks |-> "none"]
    /\ new_sample_dirs = [t \in Tasks |-> <<>>]
    /\ produced_dirs = [t \in Tasks |-> <<>>]
    /\ task_dir_idx = [t \in Tasks |-> 0]
    /\ later_dirs = [t \in Tasks |-> <<>>]

\* ---------------------------------------------------------------- Init
Init ==
    /\ registry = {}
    /\ dedup_table_name \in BOOLEAN
    /\ task \in {f \in [Tasks -> Messages] : f["t1"] = FirstMessage}
    \* What rename_samples found in the first *_task directory of each
    \* invocation: 1..MaxSamples samples for t1; as many for an invocation
    \* t2 that bypasses the dedup stage beside a t1 of one sample, and one
    \* sample for every other t2.
    /\ \E produced \in {f \in [Tasks -> SeqsUpTo(InitContents, 1, MaxSamples)] :
                            \/ Len(f["t2"]) = 1
                            \/ ~ task["t2"].dedup /\ Len(f["t1"]) = 1} :
          /\ renamed = [t \in Tasks |->
                           [i \in 1..Len(produced[t]) |-> task[t].start_index + i - 1]]
          /\ dirs = [t \in Tasks |->
                        [id \in {task[t].start_index + i - 1 : i \in 1..Len(produced[t])}
                            |-> produced[t][id - task[t].start_index + 1]]]
          /\ later_dirs \in
                IF \A t \in Tasks : Len(produced[t]) = 1
                THEN {f \in [Tasks -> {<<>>} \cup {<<<<h>>>> : h \in Hashes}] :
                         \/ f["t2"] = <<>>
                         \/ f["t1"] = <<>> /\ ~ task["t2"].dedup}
                ELSE {[t \in Tasks |-> <<>>]}
    /\ pc = [t \in Tasks |-> "start"]
    /\ round_num = [t \in Tasks |-> 0]
    /\ pending = [t \in Tasks |-> <<>>]
    /\ idx = [t \in Tasks |-> 1]
    /\ unique_samples = [t \in Tasks |-> <<>>]
    /\ duplicates = [t \in Tasks |-> <<>>]
    /\ total_retries = [t \in Tasks |-> 0]
    /\ call = [t \in Tasks |-> NoCall]
    /\ regen_attempt = [t \in Tasks |-> 0]
    /\ error = [t \in Tasks |-> "none"]
    /\ result_ids = [t \in Tasks |-> <<>>]
    /\ uploaded = [t \in Tasks |-> <<>>]
    /\ last_call = [t \in Tasks |-> "none"]
    /\ new_sample_dirs = [t \in Tasks |-> <<>>]
    /\ produced_dirs = [t \in Tasks |-> <<>>]
    /\ task_dir_idx = [t \in Tasks |-> 0]
    /\ LegacyIdle
    /\ HandlerIdle
    /\ ProcessIdle
    /\ DlqIdle
    /\ BatchIdle

\* ------------------------------------------------------------- actions
\* Mutant: the dedup stage is entered whatever task.dedup says.
EnterDedup_IgnoresFlag(t) ==
    /\ UNCHANGED <<produced_dirs, later_dirs, task_dir_idx>>
    /\ UNCHANGED <<legacy_vars, handler_vars, process_vars, dlq_vars, batch_vars>>
    /\ pc[t] = "start"
    /\ last_call' = [last_call EXCEPT ![t] = "none"]
    /\ new_sample_dirs' = [new_sample_dirs EXCEPT ![t] = <<>>]
    /\ IF FALSE
       THEN /\ result_ids' = [result_ids EXCEPT ![t] = renamed[t]]
            /\ pc' = [pc EXCEPT ![t] = "upload"]
            /\ UNCHANGED pending
       ELSE IF ~ dedup_table_name
       THEN /\ result_ids' = [result_ids EXCEPT ![t] = renamed[t]]
            /\ pc' = [pc EXCEPT ![t] = "returned"]
            /\ UNCHANGED pending
       ELSE /\ pending' = [pending EXCEPT ![t] = renamed[t]]
            /\ pc' = [pc EXCEPT ![t] = "check"]
            /\ UNCHANGED result_ids
    /\ UNCHANGED <<registry, dedup_table_name, task, renamed, dirs,
                   round_num, idx, unique_samples, duplicates, total_retries, call,
                   regen_attempt, error, uploaded>>

\* _process_samples lines 325-329 and _dedup_samples lines 199-213.
EnterDedup(t) ==
    /\ UNCHANGED <<produced_dirs, later_dirs, task_dir_idx>>
    /\ UNCHANGED <<legacy_vars, handler_vars, process_vars, dlq_vars, batch_vars>>
    /\ pc[t] = "start"
    /\ last_call' = [last_call EXCEPT ![t] = "none"]
    /\ new_sample_dirs' = [new_sample_dirs EXCEPT ![t] = <<>>]
    /\ IF ~ task[t].dedup
       THEN /\ result_ids' = [result_ids EXCEPT ![t] = renamed[t]]
            /\ pc' = [pc EXCEPT ![t] = "upload"]
            /\ UNCHANGED pending
       ELSE IF ~ dedup_table_name
       THEN /\ result_ids' = [result_ids EXCEPT ![t] = renamed[t]]
            /\ pc' = [pc EXCEPT ![t] = "returned"]
            /\ UNCHANGED pending
       ELSE /\ pending' = [pending EXCEPT ![t] = renamed[t]]
            /\ pc' = [pc EXCEPT ![t] = "check"]
            /\ UNCHANGED result_ids
    /\ UNCHANGED <<registry, dedup_table_name, task, renamed, dirs,
                   round_num, idx, unique_samples, duplicates, total_retries, call,
                   regen_attempt, error, uploaded>>

\* _dedup_samples lines 218-234: one iteration of "for sample_id in pending",
\* up to the call of check_and_register.
CheckSample(t) ==
    /\ UNCHANGED <<produced_dirs, later_dirs, task_dir_idx>>
    /\ UNCHANGED <<legacy_vars, handler_vars, process_vars, dlq_vars, batch_vars>>
    /\ pc[t] = "check"
    /\ idx[t] <= Len(pending[t])
    /\ last_call' = [last_call EXCEPT ![t] = "none"]
    /\ new_sample_dirs' = [new_sample_dirs EXCEPT ![t] = <<>>]
    /\ LET sample_id == CurrentSample(t)
           content == dirs[t][sample_id]
           param_hash == ReadParamHash(content)
       IN  IF content = Absent
           THEN /\ idx' = [idx EXCEPT ![t] = @ + 1]
                /\ UNCHANGED <<unique_samples, call, pc>>
           ELSE IF Falsy(param_hash)
           THEN /\ unique_samples' = [unique_samples EXCEPT ![t] = Append(@, sample_id)]
                /\ idx' = [idx EXCEPT ![t] = @ + 1]
                /\ UNCHANGED <<call, pc>>
           ELSE /\ call' = [call EXCEPT ![t] = [NoCall EXCEPT !.param_hash = param_hash,
                                                        !.sample_id = sample_id]]
                /\ pc' = [pc EXCEPT ![t] = "put_item"]
                /\ UNCHANGED <<unique_samples, idx>>
    /\ UNCHANGED <<registry, dedup_table_name, task, renamed, dirs,
                   round_num, pending, duplicates, total_retries, regen_attempt,
                   error, result_ids, uploaded>>

\* _dedup_samples lines 234-240: check_and_register returned `result`.
Returned(t, result) ==
    /\ IF result
       THEN /\ unique_samples' = [unique_samples EXCEPT ![t] = Append(@, CurrentSample(t))]
            /\ UNCHANGED duplicates
       ELSE /\ duplicates' = [duplicates EXCEPT ![t] = Append(@, CurrentSample(t))]
            /\ UNCHANGED unique_samples
    /\ idx' = [idx EXCEPT ![t] = @ + 1]
    /\ call' = [call EXCEPT ![t] = NoCall]
    /\ pc' = [pc EXCEPT ![t] = "check"]
    /\ UNCHANGED error

\* dedup.py lines 42-50: the conditional put succeeds.
PutItemOk(t) ==
    /\ UNCHANGED <<produced_dirs, later_dirs, task_dir_idx>>
    /\ UNCHANGED <<legacy_vars, handler_vars, process_vars, dlq_vars, batch_vars>>
    /\ pc[t] = "put_item"
    /\ ConditionExpression(registry, CurrentItem(t))
    /\ registry' = TablePut(registry, CurrentItem(t))
    /\ last_call' = [last_call EXCEPT ![t] = "put_item"]
    /\ new_sample_dirs' = [new_sample_dirs EXCEPT ![t] = <<>>]
    /\ Returned(t, TRUE)
    /\ UNCHANGED <<dedup_table_name, task, renamed, dirs, round_num, pending,
                   total_retries, regen_attempt, result_ids, uploaded>>

\* dedup.py lines 51-56: ConditionalCheckFailedException, go on to _is_owned_by.
PutItemConflict(t) ==
    /\ UNCHANGED <<produced_dirs, later_dirs, task_dir_idx>>
    /\ UNCHANGED <<legacy_vars, handler_vars, process_vars, dlq_vars, batch_vars>>
    /\ pc[t] = "put_item"
    /\ ~ ConditionExpression(registry, CurrentItem(t))
    /\ call' = [call EXCEPT ![t].outcome = "ConditionalCheckFailedException"]
    /\ pc' = [pc EXCEPT ![t] = "get_item"]
    /\ last_call' = [last_call EXCEPT ![t] = "put_item"]
    /\ new_sample_dirs' = [new_sample_dirs EXCEPT ![t] = <<>>]
    /\ UNCHANGED <<registry, dedup_table_name, task, renamed, dirs,
                   round_num, pending, idx, unique_samples, duplicates, total_retries,
                   regen_attempt, error, result_ids, uploaded>>

\* dedup.py lines 51-68: put_item raised a ClientError other than the
\* conditional-check conflict.
PutItemFails(t) ==
    /\ UNCHANGED <<produced_dirs, later_dirs, task_dir_idx>>
    /\ UNCHANGED <<legacy_vars, handler_vars, process_vars, dlq_vars, batch_vars>>
    /\ pc[t] = "put_item"
    /\ last_call' = [last_call EXCEPT ![t] = "put_item"]
    /\ new_sample_dirs' = [new_sample_dirs EXCEPT ![t] = <<>>]
    /\ \E code \in ErrorCodes :
          IF IsThrottle(code)
          THEN LET slept == Append(call[t].slept, Wait(call[t].attempt))
                   attempt == call[t].attempt + 1
               IN  /\ call' = [call EXCEPT ![t].outcome = code, ![t].slept = slept,
                                           ![t].attempt = attempt]
                   /\ IF attempt < MAX_THROTTLE_RETRIES
                      THEN UNCHANGED <<pc, error, round_num, pending, idx,
                                       unique_samples, duplicates, total_retries,
                                       regen_attempt>>
                      ELSE Raises(t, code)
          ELSE /\ call' = [call EXCEPT ![t].outcome = code]
               /\ Raises(t, code)
    /\ UNCHANGED <<registry, dedup_table_name, task, renamed, dirs, result_ids,
                   uploaded>>

\* dedup.py lines 70-81: _is_owned_by reads the owner and compares.
GetItemOk(t) ==
    /\ UNCHANGED <<produced_dirs, later_dirs, task_dir_idx>>
    /\ UNCHANGED <<legacy_vars, handler_vars, process_vars, dlq_vars, batch_vars>>
    /\ pc[t] = "get_item"
    /\ last_call' = [last_call EXCEPT ![t] = "get_item"]
    /\ new_sample_dirs' = [new_sample_dirs EXCEPT ![t] = <<>>]
    /\ Returned(t, IsOwnedBy(registry, task[t].type, call[t].param_hash,
                              call[t].sample_id))
    /\ UNCHANGED <<registry, dedup_table_name, task, renamed, dirs, round_num,
                   pending, total_retries, regen_attempt, result_ids, uploaded>>

\* dedup.py line 72 raises: the call is made inside the except clause of
\* check_and_register, so no handler of the retry loop sees its error.
GetItemFails(t) ==
    /\ UNCHANGED <<produced_dirs, later_dirs, task_dir_idx>>
    /\ UNCHANGED <<legacy_vars, handler_vars, process_vars, dlq_vars, batch_vars>>
    /\ pc[t] = "get_item"
    /\ last_call' = [last_call EXCEPT ![t] = "get_item"]
    /\ new_sample_dirs' = [new_sample_dirs EXCEPT ![t] = <<>>]
    /\ \E code \in ErrorCodes :
          /\ call' = [call EXCEPT ![t].outcome = code]
          /\ Raises(t, code)
    /\ UNCHANGED <<registry, dedup_table_name, task, renamed, dirs, result_ids,
                   uploaded>>

\* Mutant: the directories are left in place.
RemoveDirs_Noop(d, ids) == d

\* shutil.rmtree of the directories of `ids`.
RemoveDirs(d, ids) ==
    [id \in DOMAIN d |-> IF id \in ids THEN Absent ELSE d[id]]

\* _batch_regenerate lines 153-161, the first `upto` iterations: the i-th
\* duplicate's directory is removed, then the i-th regenerated directory, if
\* there is one, is renamed onto it.
\* Mutant: the duplicates keep their old directories.
InstallRegenerated_KeepsOld(d, dups, new, upto) == d

\* Mutant: the regenerated directories are paired from the last one.
InstallRegenerated_Reversed(d, dups, new, upto) ==
    [id \in DOMAIN d |->
        IF \E i \in 1..upto : dups[i] = id
        THEN LET i == CHOOSE k \in 1..upto : dups[k] = id
             IN  IF i <= Len(new) THEN new[Len(new) - i + 1] ELSE Absent
        ELSE d[id]]

InstallRegenerated(d, dups, new, upto) ==
    [id \in DOMAIN d |->
        IF \E i \in 1..upto : dups[i] = id
        THEN LET i == CHOOSE k \in 1..upto : dups[k] = id
             IN  IF i <= Len(new) THEN new[i] ELSE Absent
        ELSE d[id]]

\* Mutant: the final round is tested one round late.
LastRound_OffByOne(r) == r = MAX_DEDUP_RETRIES + 1

\* _dedup_samples line 246: "if round_num == MAX_DEDUP_RETRIES".
LastRound(r) == r = MAX_DEDUP_RETRIES

\* _dedup_samples line 215: range(MAX_DEDUP_RETRIES + 1) has a value after r.
RoundsLeft(r) == r + 1 < MAX_DEDUP_RETRIES + 1

\* _dedup_samples lines 242-256: the for loop over pending is over.
EndRound(t) ==
    /\ UNCHANGED <<produced_dirs, later_dirs, task_dir_idx>>
    /\ UNCHANGED <<legacy_vars, handler_vars, process_vars, dlq_vars, batch_vars>>
    /\ pc[t] = "check"
    /\ idx[t] > Len(pending[t])
    /\ last_call' = [last_call EXCEPT ![t] = "none"]
    /\ new_sample_dirs' = [new_sample_dirs EXCEPT ![t] = <<>>]
    /\ IF duplicates[t] = <<>>
       THEN /\ result_ids' = [result_ids EXCEPT ![t] = unique_samples[t]]
            /\ pc' = [pc EXCEPT ![t] = "returned"]
            /\ UNCHANGED <<dirs, total_retries, regen_attempt>>
       ELSE IF LastRound(round_num[t])
       THEN /\ dirs' = [dirs EXCEPT ![t] = RemoveDirs(@, Range(duplicates[t]))]
            /\ result_ids' = [result_ids EXCEPT ![t] = unique_samples[t]]
            /\ pc' = [pc EXCEPT ![t] = "returned"]
            /\ UNCHANGED <<total_retries, regen_attempt>>
       ELSE /\ total_retries' = [total_retries EXCEPT ![t] = @ + 1]
            /\ regen_attempt' = [regen_attempt EXCEPT ![t] = 0]
            /\ pc' = [pc EXCEPT ![t] = "regenerate"]
            /\ UNCHANGED <<dirs, result_ids>>
    /\ UNCHANGED <<registry, dedup_table_name, task, renamed,
                   round_num, pending, idx, unique_samples, duplicates, call, error,
                   uploaded>>

\* Mutant: the next round checks every input id again.
NextRound_RechecksAll(t) ==
    /\ regen_attempt' = [regen_attempt EXCEPT ![t] = 0]
    /\ IF RoundsLeft(round_num[t])
       THEN /\ pending' = [pending EXCEPT ![t] = renamed[t]]
            /\ duplicates' = [duplicates EXCEPT ![t] = <<>>]
            /\ idx' = [idx EXCEPT ![t] = 1]
            /\ round_num' = [round_num EXCEPT ![t] = @ + 1]
            /\ pc' = [pc EXCEPT ![t] = "check"]
            /\ UNCHANGED result_ids
       ELSE /\ pending' = [pending EXCEPT ![t] = renamed[t]]
            /\ result_ids' = [result_ids EXCEPT ![t] = unique_samples[t]]
            /\ pc' = [pc EXCEPT ![t] = "returned"]
            /\ UNCHANGED <<duplicates, idx, round_num>>

\* _dedup_samples line 258 and the head of the next round, lines 215-216; when
\* the range of round_num is used up the loop ends and line 265 returns.
NextRound(t) ==
    /\ regen_attempt' = [regen_attempt EXCEPT ![t] = 0]
    /\ IF RoundsLeft(round_num[t])
       THEN /\ pending' = [pending EXCEPT ![t] = duplicates[t]]
            /\ duplicates' = [duplicates EXCEPT ![t] = <<>>]
            /\ idx' = [idx EXCEPT ![t] = 1]
            /\ round_num' = [round_num EXCEPT ![t] = @ + 1]
            /\ pc' = [pc EXCEPT ![t] = "check"]
            /\ UNCHANGED result_ids
       ELSE /\ pending' = [pending EXCEPT ![t] = duplicates[t]]
            /\ result_ids' = [result_ids EXCEPT ![t] = unique_samples[t]]
            /\ pc' = [pc EXCEPT ![t] = "returned"]
            /\ UNCHANGED <<duplicates, idx, round_num>>

\* Mutant: after the last attempt the duplicates keep their directories.
AttemptFailed_KeepsDirs(t, d) ==
    IF regen_attempt[t] + 1 < MAX_DEDUP_RETRIES
    THEN /\ regen_attempt' = [regen_attempt EXCEPT ![t] = @ + 1]
         /\ dirs' = [dirs EXCEPT ![t] = d]
         /\ UNCHANGED <<pending, duplicates, idx, round_num, pc, result_ids>>
    ELSE /\ dirs' = [dirs EXCEPT ![t] = d]
         /\ NextRound(t)

\* _batch_regenerate lines 165-176: an attempt ended without "return"; `d` is
\* the sample tree it leaves.  Either the next attempt follows or, after the
\* last one, every duplicate's directory is removed.
AttemptFailed(t, d) ==
    IF regen_attempt[t] + 1 < MAX_DEDUP_RETRIES
    THEN /\ regen_attempt' = [regen_attempt EXCEPT ![t] = @ + 1]
         /\ dirs' = [dirs EXCEPT ![t] = d]
         /\ UNCHANGED <<pending, duplicates, idx, round_num, pc, result_ids>>
    ELSE /\ dirs' = [dirs EXCEPT ![t] = RemoveDirs(d, Range(duplicates[t]))]
         /\ NextRound(t)

\* _batch_regenerate line 137: runner.run raises.
RegenGeneratorRaises(t) ==
    /\ UNCHANGED <<produced_dirs, later_dirs, task_dir_idx>>
    /\ UNCHANGED <<legacy_vars, handler_vars, process_vars, dlq_vars, batch_vars>>
    /\ pc[t] = "regenerate"
    /\ last_call' = [last_call EXCEPT ![t] = "generator"]
    /\ new_sample_dirs' = [new_sample_dirs EXCEPT ![t] = <<>>]
    /\ AttemptFailed(t, dirs[t])
    /\ UNCHANGED <<registry, dedup_table_name, task, renamed,
                   unique_samples, total_retries, call, error, uploaded>>

\* _batch_regenerate lines 140-143: find_task_directories finds nothing.
RegenNoOutput(t) ==
    /\ UNCHANGED <<produced_dirs, later_dirs, task_dir_idx>>
    /\ UNCHANGED <<legacy_vars, handler_vars, process_vars, dlq_vars, batch_vars>>
    /\ pc[t] = "regenerate"
    /\ last_call' = [last_call EXCEPT ![t] = "generator"]
    /\ new_sample_dirs' = [new_sample_dirs EXCEPT ![t] = <<>>]
    /\ AttemptFailed(t, dirs[t])
    /\ UNCHANGED <<registry, dedup_table_name, task, renamed,
                   unique_samples, total_retries, call, error, uploaded>>

\* _batch_regenerate lines 145-163: the generator left n directories (any
\* number of them, whatever was asked for) of contents `new`; those that
\* line 158 pairs with a duplicate are moved into place, the others are
\* removed with the scratch directory (one that is not paired is taken to
\* be like the one before it: its content plays no part).
RegenInstalls(t) ==
    /\ UNCHANGED <<produced_dirs, later_dirs, task_dir_idx>>
    /\ UNCHANGED <<legacy_vars, handler_vars, process_vars, dlq_vars, batch_vars>>
    /\ pc[t] = "regenerate"
    /\ last_call' = [last_call EXCEPT ![t] = "generator"]
    /\ \E n \in 0..(Len(duplicates[t]) + 1) :
       \E new \in {f \in [1..n -> RegenContents] :
                      n > Len(duplicates[t]) => f[n] = f[n - 1]} :
          /\ new_sample_dirs' = [new_sample_dirs EXCEPT ![t] = new]
          /\ dirs' = [dirs EXCEPT ![t] =
                       InstallRegenerated(@, duplicates[t], new, Len(duplicates[t]))]
    /\ NextRound(t)
    /\ UNCHANGED <<registry, dedup_table_name, task, renamed,
                   unique_samples, total_retries, call, error, uploaded>>

\* _batch_regenerate lines 153-166: the rename of the j-th regenerated
\* directory raises after the j-th duplicate's directory was removed; `new`
\* is the content of the j - 1 directories moved before it.
RegenMoveFails(t) ==
    /\ UNCHANGED <<produced_dirs, later_dirs, task_dir_idx>>
    /\ UNCHANGED <<legacy_vars, handler_vars, process_vars, dlq_vars, batch_vars>>
    /\ pc[t] = "regenerate"
    /\ last_call' = [last_call EXCEPT ![t] = "generator"]
    /\ new_sample_dirs' = [new_sample_dirs EXCEPT ![t] = <<>>]
    /\ \E j \in 1..Len(duplicates[t]) :
       \E new \in [1..(j - 1) -> RegenContents] :
          AttemptFailed(t, RemoveDirs(
              InstallRegenerated(dirs[t], duplicates[t], new, j - 1),
              {duplicates[t][j]}))
    /\ UNCHANGED <<registry, dedup_table_name, task, renamed,
                   unique_samples, total_retries, call, error, uploaded>>

\* _process_samples lines 332-346: the ids that passed are handed to
\* uploader.upload_samples with the directories they name.
HandToUpload(t) ==
    /\ UNCHANGED <<produced_dirs, later_dirs, task_dir_idx>>
    /\ UNCHANGED <<legacy_vars, handler_vars, process_vars, dlq_vars, batch_vars>>
    /\ pc[t] \in {"returned", "upload"}
    /\ pc' = [pc EXCEPT ![t] = "done"]
    /\ IF pc[t] = "returned" /\ result_ids[t] = <<>>
       THEN UNCHANGED <<uploaded, last_call>>
       ELSE /\ uploaded' = [uploaded EXCEPT ![t] = @ \o
                  [i \in 1..Len(result_ids[t]) |->
                      [sample_id |-> result_ids[t][i],
                       content |-> dirs[t][result_ids[t][i]]]]]
            /\ last_call' = [last_call EXCEPT ![t] = "upload"]
    /\ result_ids' = [result_ids EXCEPT ![t] = <<>>]
    /\ new_sample_dirs' = [new_sample_dirs EXCEPT ![t] = <<>>]
    /\ Unwound(t)
    /\ UNCHANGED <<registry, dedup_table_name, task, renamed, dirs, call, error>>

\* _process_samples lines 314-323: the loop reaches the next *_task
\* directory, and rename_samples numbers its samples from task.start_index.
NextDomainTaskDir(t) ==
    /\ UNCHANGED <<legacy_vars, handler_vars, process_vars, dlq_vars, batch_vars>>
    /\ pc[t] = "done"
    /\ task_dir_idx[t] < Len(later_dirs[t])
    /\ task_dir_idx' = [task_dir_idx EXCEPT ![t] = @ + 1]
    /\ LET produced == later_dirs[t][task_dir_idx[t] + 1]
           first == task[t].start_index
           ids == [i \in 1..Len(produced) |-> first + i - 1]
       IN  /\ renamed' = [renamed EXCEPT ![t] = ids]
           /\ result_ids' = [result_ids EXCEPT ![t] = ids]
           /\ dirs' = [dirs EXCEPT ![t] =
                          [id \in Range(ids) |-> produced[id - first + 1]]]
    /\ pc' = [pc EXCEPT ![t] = "start"]
    /\ last_call' = [last_call EXCEPT ![t] = "none"]
    /\ UNCHANGED <<registry, dedup_table_name, task, round_num, pending, idx,
                   unique_samples, duplicates, total_retries, call,
                   regen_attempt, error, uploaded, new_sample_dirs,
                   produced_dirs, later_dirs>>

TaskNext(t) ==
    \/ EnterDedup(t)
    \/ CheckSample(t)
    \/ PutItemOk(t)
    \/ PutItemConflict(t)
    \/ PutItemFails(t)
    \/ GetItemOk(t)
    \/ GetItemFails(t)
    \/ EndRound(t)
    \/ RegenGeneratorRaises(t)
    \/ RegenNoOutput(t)
    \/ RegenInstalls(t)
    \/ RegenMoveFails(t)
    \/ HandToUpload(t)
    \/ NextDomainTaskDir(t)

Next == \E t \in Tasks : TaskNext(t)

Spec == Init /\ [][Next]_vars

\* ------------------------------------------------- the spec's scenarios
\* The hashes of the three directories the generator produces in the
\* scenarios, none of which a regeneration produces again.
ScenarioHashes == <<"s1", "s2", "s3">>

\* The owner of the record Scenario B starts with.
OtherOwner == 999

\* Scenarios A and B: invocation t1 runs the task {start_index = 10,
\* num_samples = 3, dedup = true}; the generator produced "0", "1", "2" with
\* three distinct hashes, renamed to 10, 11, 12.  In Scenario B the hash of
\* "1" is registered under sample id 999.  The other invocation runs a task
\* that does not meet t1 in the registry.
InitScenario ==
    /\ registry \in {{}, {Item(FirstMessage.type, ScenarioHashes[2], OtherOwner)}}
    /\ dedup_table_name = TRUE
    /\ task \in {f \in [Tasks -> Messages] :
                    /\ f["t1"] = FirstMessage
                    /\ f["t2"].type # FirstMessage.type \/ ~ f["t2"].dedup}
    /\ \E produced \in [Tasks -> SeqsUpTo(InitContents \cup Range(ScenarioHashes), 1, 3)] :
          /\ produced["t1"] = ScenarioHashes
          /\ Len(produced["t2"]) = 1 /\ produced["t2"][1] \in InitContents
          /\ renamed = [t \in Tasks |->
                           [i \in 1..Len(produced[t]) |-> task[t].start_index + i - 1]]
          /\ dirs = [t \in Tasks |->
                        [id \in {task[t].start_index + i - 1 : i \in 1..Len(produced[t])}
                            |-> produced[t][id - task[t].start_index + 1]]]
    /\ later_dirs \in {[t \in Tasks |-> IF t = "t1" THEN l ELSE <<>>] :
                          l \in {<<>>, <<ScenarioHashes>>}}
    /\ pc = [t \in Tasks |-> "start"]
    /\ round_num = [t \in Tasks |-> 0]
    /\ pending = [t \in Tasks |-> <<>>]
    /\ idx = [t \in Tasks |-> 1]
    /\ unique_samples = [t \in Tasks |-> <<>>]
    /\ duplicates = [t \in Tasks |-> <<>>]
    /\ total_retries = [t \in Tasks |-> 0]
    /\ call = [t \in Tasks |-> NoCall]
    /\ regen_attempt = [t \in Tasks |-> 0]
    /\ error = [t \in Tasks |-> "none"]
    /\ result_ids = [t \in Tasks |-> <<>>]
    /\ uploaded = [t \in Tasks |-> <<>>]
    /\ last_call = [t \in Tasks |-> "none"]
    /\ new_sample_dirs = [t \in Tasks |-> <<>>]
    /\ produced_dirs = [t \in Tasks |-> <<>>]
    /\ task_dir_idx = [t \in Tasks |-> 0]
    /\ LegacyIdle
    /\ HandlerIdle
    /\ ProcessIdle
    /\ DlqIdle
    /\ BatchIdle

SpecScenario == InitScenario /\ [][Next]_vars

\* The inputs of batch regeneration: the three directories of the scenario
\* task, any of whose hashes may already be registered under another
\* sample id, next to an invocation that does not use the same registry keys.
InitRegen ==
    /\ registry \in SUBSET {Item(FirstMessage.type, ScenarioHashes[i], OtherOwner) :
                               i \in 1..Len(ScenarioHashes)}
    /\ dedup_table_name = TRUE
    /\ task \in {f \in [Tasks -> Messages] :
                    /\ f["t1"] = FirstMessage
                    /\ f["t2"].type # FirstMessage.type \/ ~ f["t2"].dedup}
    /\ \E produced \in [Tasks -> SeqsUpTo(InitContents \cup Range(ScenarioHashes), 1, 3)] :
          /\ produced["t1"] = ScenarioHashes
          /\ Len(produced["t2"]) = 1 /\ produced["t2"][1] \in InitContents
          /\ renamed = [t \in Tasks |->
                           [i \in 1..Len(produced[t]) |-> task[t].start_index + i - 1]]
          /\ dirs = [t \in Tasks |->
                        [id \in {task[t].start_index + i - 1 : i \in 1..Len(produced[t])}
                            |-> produced[t][id - task[t].start_index + 1]]]
    /\ later_dirs \in
          IF registry \subseteq {Item(FirstMessage.type, ScenarioHashes[1], OtherOwner)}
          THEN {[t \in Tasks |-> IF t = "t1" THEN l ELSE <<>>] :
                   l \in {<<>>, <<<<ScenarioHashes[1]>>>>}}
          ELSE {[t \in Tasks |-> <<>>]}
    /\ pc = [t \in Tasks |-> "start"]
    /\ round_num = [t \in Tasks |-> 0]
    /\ pending = [t \in Tasks |-> <<>>]
    /\ idx = [t \in Tasks |-> 1]
    /\ unique_samples = [t \in Tasks |-> <<>>]
    /\ duplicates = [t \in Tasks |-> <<>>]
    /\ total_retries = [t \in Tasks |-> 0]
    /\ call = [t \in Tasks |-> NoCall]
    /\ regen_attempt = [t \in Tasks |-> 0]
    /\ error = [t \in Tasks |-> "none"]
    /\ result_ids = [t \in Tasks |-> <<>>]
    /\ uploaded = [t \in Tasks |-> <<>>]
    /\ last_call = [t \in Tasks |-> "none"]
    /\ new_sample_dirs = [t \in Tasks |-> <<>>]
    /\ produced_dirs = [t \in Tasks |-> <<>>]
    /\ task_dir_idx = [t \in Tasks |-> 0]
    /\ LegacyIdle
    /\ HandlerIdle
    /\ ProcessIdle
    /\ DlqIdle
    /\ BatchIdle

SpecRegen == InitRegen /\ [][Next]_vars

\* ------------------------------------------------ a task delivered twice
\* The invocation layer delivers a task again after its first processing
\* completed: t2 gets the message t1 got, its generator leaves the output
\* t1's left (same type, start_index and seed), and it starts once t1 is
\* done.  Other invocations may have left records of their own before.
InitRedelivery ==
    /\ registry \in SUBSET {Item(FirstMessage.type, h, OtherOwner) : h \in Hashes}
    /\ dedup_table_name \in BOOLEAN
    /\ task \in {f \in [Tasks -> Messages] : f["t1"] = f["t2"]}
    /\ \E produced \in SeqsUpTo(InitContents, 1, 2) :
          /\ renamed = [t \in Tasks |->
                           [i \in 1..Len(produced) |-> task[t].start_index + i - 1]]
          /\ dirs = [t \in Tasks |->
                        [id \in {task[t].start_index + i - 1 : i \in 1..Len(produced)}
                            |-> produced[id - task[t].start_index + 1]]]
          /\ later_dirs \in
                IF Len(produced) = 1
                THEN {[t \in Tasks |-> l] :
                         l \in {<<>>} \cup {<<<<h>>>> : h \in Hashes}}
                ELSE {[t \in Tasks |-> <<>>]}
    /\ pc = [t \in Tasks |-> "start"]
    /\ round_num = [t \in Tasks |-> 0]
    /\ pending = [t \in Tasks |-> <<>>]
    /\ idx = [t \in Tasks |-> 1]
    /\ unique_samples = [t \in Tasks |-> <<>>]
    /\ duplicates = [t \in Tasks |-> <<>>]
    /\ total_retries = [t \in Tasks |-> 0]
    /\ call = [t \in Tasks |-> NoCall]
    /\ regen_attempt = [t \in Tasks |-> 0]
    /\ error = [t \in Tasks |-> "none"]
    /\ result_ids = [t \in Tasks |-> <<>>]
    /\ uploaded = [t \in Tasks |-> <<>>]
    /\ last_call = [t \in Tasks |-> "none"]
    /\ new_sample_dirs = [t \in Tasks |-> <<>>]
    /\ produced_dirs = dirs
    /\ task_dir_idx = [t \in Tasks |-> 0]
    /\ LegacyIdle
    /\ HandlerIdle
    /\ ProcessIdle
    /\ DlqIdle
    /\ BatchIdle

NextRedelivery ==
    \E t \in Tasks :
        /\ t = "t2" =>
              pc["t1"] = "done" /\ task_dir_idx["t1"] = Len(later_dirs["t1"])
        /\ TaskNext(t)

SpecRedelivery == InitRedelivery /\ [][NextRedelivery]_vars

\* ---------------------------------- process_task of src/lambda_handler.py
InitLegacy ==
    /\ DedupIdle
    /\ HandlerIdle
    /\ ProcessIdle
    /\ DlqIdle
    /\ BatchIdle
    /\ start_index \in StartIndexes
    /\ generated \in
          {<<d>> : d \in FirstDomains \cup OtherDomains}
          \cup {<<d, e>> : d \in FirstDomains \cup OtherDomains, e \in SecondDomains}
    /\ tree = generated
    /\ bucket = {}
    /\ domain_idx = 0
    /\ task_dirs = <<>>
    /\ dir_idx = 1
    /\ local_index = 0
    /\ found_any = FALSE
    /\ global_task_id = 0
    /\ mapping = <<>>
    /\ uploaded_samples = <<>>
    /\ to_upload = <<>>
    /\ upload_count = 0
    /\ files_to_delete = <<>>
    /\ del_idx = 1
    /\ step = "scan"
    /\ raised = "none"
    /\ task_result = NoResult
    /\ legacy_records \in
          IF Len(generated) = 1 /\ generated[1].listing = <<"0">>
          THEN {<<>>} \cup {<<[start_index |-> i, generated |-> <<d>>]>> :
                                i \in StartIndexes, d \in SecondDomains}
          ELSE {<<>>}
    /\ legacy_results = <<>>
    /\ listing_errors = <<>>

\* Lines 159-184: listing or sorting the next domain-task directory raises
\* (iterdir an OSError, the sort a TypeError when its keys are an int and a
\* str); the error is printed and the loop goes on to the next directory.
ScanDomainRaises ==
    /\ step = "scan"
    /\ domain_idx < Len(tree)
    /\ domain_idx' = domain_idx + 1
    /\ task_dirs' = <<>>
    /\ \E e \in {"OSError"} \cup (IF SortRaises(tree[domain_idx + 1].listing)
                                   THEN {"TypeError"} ELSE {}) :
          listing_errors' = Append(listing_errors,
                                   [domain |-> domain_idx + 1, error |-> e])
    /\ UNCHANGED <<start_index, generated, tree, bucket, dir_idx, local_index,
                   found_any, global_task_id, mapping, uploaded_samples,
                   to_upload, upload_count, files_to_delete, del_idx, step,
                   raised, task_result>>
    /\ UNCHANGED <<legacy_records, legacy_results>>
    /\ UNCHANGED <<dedup_vars, handler_vars, process_vars, dlq_vars, batch_vars>>

\* Lines 159-187: the next domain-task directory is listed and sorted, and
\* local_index starts again at 0.
ScanDomain ==
    /\ step = "scan"
    /\ domain_idx < Len(tree)
    /\ ~ SortRaises(tree[domain_idx + 1].listing)
    /\ domain_idx' = domain_idx + 1
    /\ task_dirs' = SortByKey(tree[domain_idx + 1].listing)
    /\ dir_idx' = 1
    /\ local_index' = 0
    /\ step' = "candidates"
    /\ UNCHANGED <<start_index, generated, tree, bucket, found_any, global_task_id,
                   mapping, uploaded_samples, to_upload, upload_count,
                   files_to_delete, del_idx, raised, task_result>>
    /\ UNCHANGED <<legacy_records, legacy_results, listing_errors>>
    /\ UNCHANGED <<dedup_vars, handler_vars, process_vars, dlq_vars, batch_vars>>

\* Lines 188-190: an entry that is not a directory is passed over.
SkipNonDirectory ==
    /\ step = "candidates"
    /\ dir_idx <= Len(task_dirs)
    /\ CurrentEntry.kind # "dir"
    /\ dir_idx' = dir_idx + 1
    /\ UNCHANGED <<start_index, generated, tree, bucket, domain_idx, task_dirs,
                   local_index, found_any, global_task_id, mapping,
                   uploaded_samples, to_upload, upload_count, files_to_delete,
                   del_idx, step, raised, task_result>>
    /\ UNCHANGED <<legacy_records, legacy_results, listing_errors>>
    /\ UNCHANGED <<dedup_vars, handler_vars, process_vars, dlq_vars, batch_vars>>

\* Lines 194-219: a directory without a recognized file gets no id, and
\* rmdir is tried on it.
RejectEmpty ==
    /\ step = "candidates"
    /\ dir_idx <= Len(task_dirs)
    /\ CurrentEntry.kind = "dir"
    /\ ~ HasFiles(CurrentEntry)
    /\ tree' = [tree EXCEPT ![domain_idx].entries[CurrentName] = Rmdir(@)]
    /\ dir_idx' = dir_idx + 1
    /\ UNCHANGED <<start_index, generated, bucket, domain_idx, task_dirs,
                   local_index, found_any, global_task_id, mapping,
                   uploaded_samples, to_upload, upload_count, files_to_delete,
                   del_idx, step, raised, task_result>>
    /\ UNCHANGED <<legacy_records, legacy_results, listing_errors>>
    /\ UNCHANGED <<dedup_vars, handler_vars, process_vars, dlq_vars, batch_vars>>

\* Lines 221-236 and 311-313: the directory gets the next global id and its
\* upload starts.
AcceptCandidate ==
    /\ step = "candidates"
    /\ dir_idx <= Len(task_dirs)
    /\ CurrentEntry.kind = "dir"
    /\ HasFiles(CurrentEntry)
    /\ global_task_id' = start_index + local_index
    /\ local_index' = local_index + 1
    /\ found_any' = TRUE
    /\ mapping' = Append(mapping, [domain |-> domain_idx, name |-> CurrentName,
                                   sample_id |-> start_index + local_index])
    /\ to_upload' = CurrentEntry.files
    /\ upload_count' = 0
    /\ files_to_delete' = <<>>
    /\ del_idx' = 1
    /\ step' = "upload"
    /\ UNCHANGED <<start_index, generated, tree, bucket, domain_idx, task_dirs,
                   dir_idx, uploaded_samples, raised, task_result>>
    /\ UNCHANGED <<legacy_records, legacy_results, listing_errors>>
    /\ UNCHANGED <<dedup_vars, handler_vars, process_vars, dlq_vars, batch_vars>>

\* The loop over task_dirs is over.
CandidatesDone ==
    /\ step = "candidates"
    /\ dir_idx > Len(task_dirs)
    /\ step' = "scan"
    /\ UNCHANGED <<start_index, generated, tree, bucket, domain_idx, task_dirs,
                   dir_idx, local_index, found_any, global_task_id, mapping,
                   uploaded_samples, to_upload, upload_count, files_to_delete,
                   del_idx, raised, task_result>>
    /\ UNCHANGED <<legacy_records, legacy_results, listing_errors>>
    /\ UNCHANGED <<dedup_vars, handler_vars, process_vars, dlq_vars, batch_vars>>

\* upload_directory_to_s3 lines 316-328, first pass: one file is uploaded
\* and marked for deletion.
UploadFile ==
    /\ step = "upload"
    /\ to_upload # <<>>
    /\ bucket' = bucket \cup {<<global_task_id, Head(to_upload)>>}
    /\ upload_count' = upload_count + 1
    /\ files_to_delete' = Append(files_to_delete, Head(to_upload))
    /\ to_upload' = Tail(to_upload)
    /\ step' = IF Tail(to_upload) = <<>> THEN "delete" ELSE "upload"
    /\ UNCHANGED <<start_index, generated, tree, domain_idx, task_dirs, dir_idx,
                   local_index, found_any, global_task_id, mapping,
                   uploaded_samples, del_idx, raised, task_result>>
    /\ UNCHANGED <<legacy_records, legacy_results, listing_errors>>
    /\ UNCHANGED <<dedup_vars, handler_vars, process_vars, dlq_vars, batch_vars>>

\* Mutant: the failed upload is printed and the pass goes on.
UploadFails_Swallowed ==
    /\ step = "upload"
    /\ to_upload # <<>>
    /\ raised' = "upload_error"
    /\ to_upload' = Tail(to_upload)
    /\ step' = IF Tail(to_upload) = <<>> THEN "delete" ELSE "upload"
    /\ UNCHANGED <<start_index, generated, tree, bucket, domain_idx, task_dirs,
                   dir_idx, local_index, found_any, global_task_id, mapping,
                   uploaded_samples, upload_count, files_to_delete,
                   del_idx, task_result>>
    /\ UNCHANGED <<legacy_records, legacy_results, listing_errors>>
    /\ UNCHANGED <<dedup_vars, handler_vars, process_vars, dlq_vars, batch_vars>>

\* Lines 329-331, 252-254 and 42-44: s3.upload_file raises and the exception
\* is raised again at every level.
UploadFails ==
    /\ step = "upload"
    /\ to_upload # <<>>
    /\ raised' = "upload_error"
    /\ step' = "failed"
    /\ UNCHANGED <<start_index, generated, tree, bucket, domain_idx, task_dirs,
                   dir_idx, local_index, found_any, global_task_id, mapping,
                   uploaded_samples, to_upload, upload_count, files_to_delete,
                   del_idx, task_result>>
    /\ UNCHANGED <<legacy_records, legacy_results, listing_errors>>
    /\ UNCHANGED <<dedup_vars, handler_vars, process_vars, dlq_vars, batch_vars>>

\* Lines 334-337, second pass: one uploaded file is deleted.
UnlinkFile ==
    /\ step = "delete"
    /\ del_idx <= Len(files_to_delete)
    /\ tree' = [tree EXCEPT ![domain_idx].entries[CurrentName] =
                   Unlink(@, files_to_delete[del_idx])]
    /\ del_idx' = del_idx + 1
    /\ UNCHANGED <<start_index, generated, bucket, domain_idx, task_dirs, dir_idx,
                   local_index, found_any, global_task_id, mapping,
                   uploaded_samples, to_upload, upload_count, files_to_delete,
                   step, raised, task_result>>
    /\ UNCHANGED <<legacy_records, legacy_results, listing_errors>>
    /\ UNCHANGED <<dedup_vars, handler_vars, process_vars, dlq_vars, batch_vars>>

\* Lines 338-339: unlink raises; a warning is printed and the pass goes on.
UnlinkFails ==
    /\ step = "delete"
    /\ del_idx <= Len(files_to_delete)
    /\ del_idx' = del_idx + 1
    /\ UNCHANGED <<start_index, generated, tree, bucket, domain_idx, task_dirs,
                   dir_idx, local_index, found_any, global_task_id, mapping,
                   uploaded_samples, to_upload, upload_count, files_to_delete,
                   step, raised, task_result>>
    /\ UNCHANGED <<legacy_records, legacy_results, listing_errors>>
    /\ UNCHANGED <<dedup_vars, handler_vars, process_vars, dlq_vars, batch_vars>>

\* Line 341 and lines 236-251: the upload returns its count, the sample is
\* recorded and rmdir is tried on its directory.
UploadReturns ==
    /\ step = "delete"
    /\ del_idx > Len(files_to_delete)
    /\ uploaded_samples' = Append(uploaded_samples,
                                  [sample_id |-> global_task_id,
                                   files_uploaded |-> upload_count])
    /\ tree' = [tree EXCEPT ![domain_idx].entries[CurrentName] = Rmdir(@)]
    /\ dir_idx' = dir_idx + 1
    /\ step' = "candidates"
    /\ UNCHANGED <<start_index, generated, bucket, domain_idx, task_dirs,
                   local_index, found_any, global_task_id, mapping, to_upload,
                   upload_count, files_to_delete, del_idx, raised, task_result>>
    /\ UNCHANGED <<legacy_records, legacy_results, listing_errors>>
    /\ UNCHANGED <<dedup_vars, handler_vars, process_vars, dlq_vars, batch_vars>>

\* Lines 256-258: no directory had files.
NoTaskFiles ==
    /\ step = "scan"
    /\ domain_idx = Len(tree)
    /\ ~ found_any
    /\ raised' = "ValueError"
    /\ step' = "failed"
    /\ UNCHANGED <<start_index, generated, tree, bucket, domain_idx, task_dirs,
                   dir_idx, local_index, found_any, global_task_id, mapping,
                   uploaded_samples, to_upload, upload_count, files_to_delete,
                   del_idx, task_result>>
    /\ UNCHANGED <<legacy_records, legacy_results, listing_errors>>
    /\ UNCHANGED <<dedup_vars, handler_vars, process_vars, dlq_vars, batch_vars>>

\* Lines 285-295: the output directory is removed and the result returned.
ReturnResult ==
    /\ step = "scan"
    /\ domain_idx = Len(tree)
    /\ found_any
    /\ tree' = [d \in DOMAIN tree |->
                   [tree[d] EXCEPT !.entries = [nm \in DOMAIN @ |-> NoEntry]]]
    /\ task_result' = [returned |-> TRUE,
                       samples_uploaded |-> Len(uploaded_samples),
                       sample_ids |-> [i \in 1..Len(uploaded_samples) |->
                                          uploaded_samples[i].sample_id]]
    /\ legacy_results' = Append(legacy_results, task_result')
    /\ step' = "done"
    /\ UNCHANGED <<start_index, generated, bucket, domain_idx, task_dirs, dir_idx,
                   local_index, found_any, global_task_id, mapping,
                   uploaded_samples, to_upload, upload_count, files_to_delete,
                   del_idx, raised>>
    /\ UNCHANGED <<legacy_records, listing_errors>>
    /\ UNCHANGED <<dedup_vars, handler_vars, process_vars, dlq_vars, batch_vars>>

\* handler, lines 33-40: the loop reaches the next record and process_task
\* is entered for its task; the generator has written its output.
NextRecord ==
    /\ step = "done"
    /\ legacy_records # <<>>
    /\ start_index' = Head(legacy_records).start_index
    /\ generated' = Head(legacy_records).generated
    /\ tree' = Head(legacy_records).generated
    /\ legacy_records' = Tail(legacy_records)
    /\ domain_idx' = 0
    /\ task_dirs' = <<>>
    /\ dir_idx' = 1
    /\ local_index' = 0
    /\ found_any' = FALSE
    /\ global_task_id' = 0
    /\ mapping' = <<>>
    /\ uploaded_samples' = <<>>
    /\ to_upload' = <<>>
    /\ upload_count' = 0
    /\ files_to_delete' = <<>>
    /\ del_idx' = 1
    /\ step' = "scan"
    /\ task_result' = NoResult
    /\ listing_errors' = <<>>
    /\ UNCHANGED <<bucket, raised, legacy_results>>
    /\ UNCHANGED <<dedup_vars, handler_vars, process_vars, dlq_vars, batch_vars>>

NextLegacy ==
    \/ ScanDomain
    \/ ScanDomainRaises
    \/ SkipNonDirectory
    \/ RejectEmpty
    \/ AcceptCandidate
    \/ CandidatesDone
    \/ UploadFile
    \/ UploadFails
    \/ UnlinkFile
    \/ UnlinkFails
    \/ UploadReturns
    \/ NoTaskFiles
    \/ ReturnResult
    \/ NextRecord

SpecLegacy == InitLegacy /\ [][NextLegacy]_vars

\* ------------------------------------------------- handler of handler.py
\* A record of the event: with or without a "body", holding a task message
\* that passes TaskMessage's validation or not, asking for dedup or not.
Records ==
    {[body |-> b, valid |-> v, dedup |-> d] :
        b \in BOOLEAN, v \in BOOLEAN, d \in BOOLEAN}

\* Line 45: the records of a batch of 1..MaxRecords records, or the event
\* itself as the only record.
Events ==
    SeqsUpTo(Records, 1, MaxRecords)
    \cup {<<r>> : r \in {x \in Records : ~ x.body}}

\* Lines 50-53: model_validate_json or model_validate accepts the record.
ModelValidate(record) == record.valid

InitHandler ==
    /\ DedupIdle
    /\ LegacyIdle
    /\ ProcessIdle
    /\ DlqIdle
    /\ BatchIdle
    /\ records \in Events
    /\ record_idx = 1
    /\ effects = <<>>
    /\ results = <<>>
    /\ handler_step = "parse"
    /\ exception = "none"
    /\ dirs_to_visit = 0

\* Lines 48-53: the next record is parsed into a TaskMessage.
ParseRecord ==
    /\ handler_step = "parse"
    /\ record_idx <= Len(records)
    /\ ModelValidate(records[record_idx])
    /\ handler_step' = "generate"
    /\ UNCHANGED <<records, record_idx, effects, results, exception,
                   dirs_to_visit>>
    /\ UNCHANGED <<dedup_vars, legacy_vars, process_vars, dlq_vars, batch_vars>>

\* Lines 50-53: the parse raises ValidationError, which nothing catches.
ParseFails ==
    /\ handler_step = "parse"
    /\ record_idx <= Len(records)
    /\ ~ ModelValidate(records[record_idx])
    /\ exception' = "ValidationError"
    /\ handler_step' = "raised"
    /\ UNCHANGED <<records, record_idx, effects, results, dirs_to_visit>>
    /\ UNCHANGED <<dedup_vars, legacy_vars, process_vars, dlq_vars, batch_vars>>

\* process_task, line 55: _process_samples lines 293-323 run the generator
\* and rename the samples of the first *_task directory that has any; the
\* output holds 1..MaxTaskDirs such directories.
RunGenerator ==
    /\ handler_step = "generate"
    /\ effects' = Append(effects, <<record_idx, "generator">>)
    /\ \E n \in 1..MaxTaskDirs : dirs_to_visit' = n - 1
    /\ handler_step' = IF records[record_idx].dedup THEN "dedup" ELSE "upload"
    /\ UNCHANGED <<records, record_idx, results, exception>>
    /\ UNCHANGED <<dedup_vars, legacy_vars, process_vars, dlq_vars, batch_vars>>

\* _process_samples lines 326-334: the dedup stage of a directory.  It
\* writes to the registry or not (nothing is written when
\* DEDUP_TABLE_NAME is unset, when no sample has a param_hash, or when
\* every hash is in the table already), runs the generator again or not (a
\* regeneration of the duplicates, lines 255-257 and 137), in either order,
\* and keeps some sample or none; a sample whose hash it wrote is kept.
\* With none kept the upload of the directory is skipped: the loop of line
\* 314 renames the next directory, or ends, and handler keeps the result of
\* the record (lines 55-56).
RegisterSamples ==
    /\ handler_step = "dedup"
    /\ LET registry_write == <<record_idx, "registry">>
           regeneration == <<record_idx, "generator">>
       IN  \E made \in {<<>>, <<registry_write>>, <<regeneration>>,
                         <<registry_write, regeneration>>,
                         <<regeneration, registry_write>>},
              kept \in BOOLEAN :
              /\ registry_write \in Range(made) => kept
              /\ effects' = effects \o made
              /\ IF kept
                 THEN /\ handler_step' = "upload"
                      /\ UNCHANGED <<record_idx, results, dirs_to_visit>>
                 ELSE IF dirs_to_visit > 0
                      THEN /\ dirs_to_visit' = dirs_to_visit - 1
                           /\ handler_step' = "dedup"
                           /\ UNCHANGED <<record_idx, results>>
                      ELSE /\ results' = Append(results, record_idx)
                           /\ record_idx' = record_idx + 1
                           /\ handler_step' = "parse"
                           /\ UNCHANGED dirs_to_visit
    /\ UNCHANGED <<records, exception>>
    /\ UNCHANGED <<dedup_vars, legacy_vars, process_vars, dlq_vars, batch_vars>>

\* _process_samples lines 336-348: the kept samples of a directory are
\* uploaded; then the loop of line 314 renames the next directory, or ends,
\* and handler keeps the result of the record (lines 55-56).
UploadSamples ==
    /\ handler_step = "upload"
    /\ effects' = Append(effects, <<record_idx, "upload">>)
    /\ IF dirs_to_visit > 0
       THEN /\ dirs_to_visit' = dirs_to_visit - 1
            /\ handler_step' =
                  IF records[record_idx].dedup THEN "dedup" ELSE "upload"
            /\ UNCHANGED <<record_idx, results>>
       ELSE /\ results' = Append(results, record_idx)
            /\ record_idx' = record_idx + 1
            /\ handler_step' = "parse"
            /\ UNCHANGED dirs_to_visit
    /\ UNCHANGED <<records, exception>>
    /\ UNCHANGED <<dedup_vars, legacy_vars, process_vars, dlq_vars, batch_vars>>

\* The generator, the search for renamed samples, the registry or the
\* upload raises; process_task and handler have no try block.  The stage
\* that raises may have made part of its effects: the generator has run
\* when its output is refused (lines 301-304, 350-353); put_item calls and
\* regenerations came before the registry call that failed; the upload of
\* a sample before the one that failed has been made.
ProcessRaises ==
    /\ handler_step \in {"generate", "dedup", "upload"}
    /\ LET registry_write == <<record_idx, "registry">>
           regeneration == <<record_idx, "generator">>
           made == CASE handler_step = "generate" ->
                           {<<>>, <<regeneration>>}
                     [] handler_step = "dedup" ->
                           {<<>>, <<registry_write>>, <<regeneration>>,
                            <<registry_write, regeneration>>,
                            <<regeneration, registry_write>>}
                     [] handler_step = "upload" ->
                           {<<>>, <<<<record_idx, "upload">>>>}
       IN  \E part \in made : effects' = effects \o part
    /\ exception' = "ProcessingError"
    /\ handler_step' = "raised"
    /\ UNCHANGED <<records, record_idx, results, dirs_to_visit>>
    /\ UNCHANGED <<dedup_vars, legacy_vars, process_vars, dlq_vars, batch_vars>>

\* Line 58: every record was processed.
ReturnOk ==
    /\ handler_step = "parse"
    /\ record_idx > Len(records)
    /\ handler_step' = "returned"
    /\ UNCHANGED <<records, record_idx, effects, results, exception,
                   dirs_to_visit>>
    /\ UNCHANGED <<dedup_vars, legacy_vars, process_vars, dlq_vars, batch_vars>>

NextHandler ==
    \/ ParseRecord
    \/ ParseFails
    \/ RunGenerator
    \/ RegisterSamples
    \/ UploadSamples
    \/ ProcessRaises
    \/ ReturnOk

SpecHandler == InitHandler /\ [][NextHandler]_vars

\* ------------------------------------------- process_task of handler.py
\* find_task_directories, line 299: whether it can return a directory.  It
\* returns none for a missing output root; for a root without a domain-task
\* directory it returns none or the root itself.
FindTaskDirectories(out) ==
    CASE out = "missing" -> {FALSE}
      [] out = "no_domain" -> {FALSE, TRUE}
      [] OTHER -> {TRUE}

InitTask ==
    /\ DedupIdle
    /\ LegacyIdle
    /\ HandlerIdle
    /\ DlqIdle
    /\ BatchIdle
    /\ received \in [seed : {NoSeed, 42}, dedup : BOOLEAN]
    /\ task_msg = received
    \* What the generator leaves at the output path: nothing, a directory
    \* without a domain-task directory, domain-task directories without an
    \* accepted sample directory, or accepted sample directories: up to
    \* MaxCandidates of them, spread over up to MaxTaskDirs directories.
    /\ generator_output \in {"missing", "no_domain", "no_accepted", "samples"}
    /\ domain_task_dirs \in
          CASE generator_output = "samples" ->
                  LET RECURSIVE Total(_)
                      Total(d) == IF d = <<>> THEN 0
                                  ELSE Head(d) + Total(Tail(d))
                  IN  {d \in SeqsUpTo(0..MaxCandidates, 1, MaxTaskDirs) :
                          Total(d) \in 1..MaxCandidates}
            [] generator_output = "no_accepted" ->
                  SeqsUpTo({0}, 1, MaxTaskDirs)
            [] OTHER -> {<<>>}
    /\ task_dir_pos = 0
    /\ found_any_task_dir = FALSE
    /\ output_dir = "missing"
    /\ renamed_count = 0
    /\ kept_count = 0
    /\ generator_runs = 0
    /\ registry_calls = 0
    /\ stored = 0
    /\ process_step = "start"
    /\ process_error = "none"
    /\ process_result = NoTaskResult

\* An exception leaves _process_samples and process_task; nothing catches
\* it and nothing removes the output directory.
ProcessFails(code) ==
    /\ process_error' = code
    /\ process_step' = "raised"
    /\ UNCHANGED <<received, generator_output, process_result,
                   domain_task_dirs, found_any_task_dir>>

\* process_task lines 77-79: a missing seed is replaced by a random one,
\* random.randint(1, 2**31 - 1): its least and its greatest value.
DefaultSeed ==
    /\ process_step = "start"
    /\ IF task_msg.seed = NoSeed
       THEN \E seed \in {1, 2147483647} : task_msg' = [task_msg EXCEPT !.seed = seed]
       ELSE UNCHANGED task_msg
    /\ process_step' = "generate"
    /\ UNCHANGED <<received, generator_output, output_dir, renamed_count,
                   kept_count, generator_runs, registry_calls, stored,
                   process_error, process_result>>
    /\ UNCHANGED <<domain_task_dirs, task_dir_pos, found_any_task_dir>>
    /\ UNCHANGED <<dedup_vars, legacy_vars, handler_vars, dlq_vars, batch_vars>>

\* _process_samples lines 293-295: the generator runs and leaves its output.
RunnerRun ==
    /\ process_step = "generate"
    /\ generator_runs' = generator_runs + 1
    /\ output_dir' = generator_output
    /\ process_step' = "find"
    /\ UNCHANGED <<received, task_msg, generator_output, renamed_count,
                   kept_count, registry_calls, stored, process_error,
                   process_result>>
    /\ UNCHANGED <<domain_task_dirs, task_dir_pos, found_any_task_dir>>
    /\ UNCHANGED <<dedup_vars, legacy_vars, handler_vars, dlq_vars, batch_vars>>

\* Line 295: runner.run raises, with or without output left behind.
RunnerRaises ==
    /\ process_step = "generate"
    /\ generator_runs' = generator_runs + 1
    /\ output_dir' \in {"missing", generator_output}
    /\ ProcessFails("CalledProcessError")
    /\ UNCHANGED <<task_msg, renamed_count, kept_count, registry_calls, stored,
                   task_dir_pos>>
    /\ UNCHANGED <<dedup_vars, legacy_vars, handler_vars, dlq_vars, batch_vars>>

\* Lines 299-304: no questions directory, ValueError.
FindNothing ==
    /\ process_step = "find"
    /\ FALSE \in FindTaskDirectories(output_dir)
    /\ ProcessFails("ValueError")
    /\ UNCHANGED <<task_msg, output_dir, renamed_count, kept_count,
                   generator_runs, registry_calls, stored, task_dir_pos>>
    /\ UNCHANGED <<dedup_vars, legacy_vars, handler_vars, dlq_vars, batch_vars>>

\* Lines 299-312: a questions directory was found.
FindQuestionsDir ==
    /\ process_step = "find"
    /\ TRUE \in FindTaskDirectories(output_dir)
    /\ process_step' = "domains"
    /\ UNCHANGED <<received, task_msg, generator_output, output_dir,
                   renamed_count, kept_count, generator_runs, registry_calls,
                   stored, process_error, process_result>>
    /\ UNCHANGED <<domain_task_dirs, task_dir_pos, found_any_task_dir>>
    /\ UNCHANGED <<dedup_vars, legacy_vars, handler_vars, dlq_vars, batch_vars>>

\* Mutant: a directory in which nothing was renamed is not passed over.
RenamedLater_AnyDirectory ==
    (task_dir_pos + 1)..Len(domain_task_dirs)

\* Lines 314-321: the directories the loop has yet to reach in which
\* rename_samples renames a sample; the others are passed over.
RenamedLater ==
    {k \in (task_dir_pos + 1)..Len(domain_task_dirs) : domain_task_dirs[k] > 0}

\* Lines 314-326, after the stage of a directory that left `kept` samples:
\* the loop goes to the next directory with a renamed sample and renames
\* it, or ends.
NextTaskDir(kept) ==
    IF RenamedLater = {}
    THEN /\ task_dir_pos' = Len(domain_task_dirs)
         /\ kept_count' = kept
         /\ process_step' = "finish"
         /\ UNCHANGED <<renamed_count, found_any_task_dir>>
    ELSE LET k == CHOOSE k \in RenamedLater : \A j \in RenamedLater : k <= j
         IN  /\ task_dir_pos' = k
             /\ renamed_count' = domain_task_dirs[k]
             /\ kept_count' = domain_task_dirs[k]
             /\ found_any_task_dir' = TRUE
             /\ process_step' = IF task_msg.dedup THEN "dedup" ELSE "upload"

\* Lines 314-323: rename_samples gives ids to the accepted directories of
\* the first domain-task directory that has any.
RenameSamples ==
    /\ process_step = "domains"
    /\ RenamedLater # {}
    /\ NextTaskDir(0)
    /\ UNCHANGED <<received, task_msg, generator_output, output_dir,
                   generator_runs, registry_calls, stored, process_error,
                   process_result, domain_task_dirs>>
    /\ UNCHANGED <<dedup_vars, legacy_vars, handler_vars, dlq_vars, batch_vars>>

\* Lines 314-321 and 350-353: no domain-task directory, or none with a
\* renamed sample: found_any_task_dir stays False, ValueError.
NoTaskDirectories ==
    /\ process_step = "domains"
    /\ RenamedLater = {}
    /\ ~ found_any_task_dir
    /\ task_dir_pos' = Len(domain_task_dirs)
    /\ ProcessFails("ValueError")
    /\ UNCHANGED <<task_msg, output_dir, renamed_count, kept_count,
                   generator_runs, registry_calls, stored>>
    /\ UNCHANGED <<dedup_vars, legacy_vars, handler_vars, dlq_vars, batch_vars>>

\* Lines 326-334: _dedup_samples passes samples to check_and_register (none
\* when DEDUP_TABLE_NAME is unset or no sample has a param_hash, a sample
\* again after each regeneration, every dropped sample at least once), runs
\* a batch regeneration after each check round but the last that found a
\* duplicate (lines 255-257), and returns the ids it kept; each regeneration
\* runs the generator once per attempt (line 137), one to MAX_DEDUP_RETRIES
\* times.  With no id left the upload is skipped and the loop goes on with
\* the next directory.
DedupStage ==
    /\ process_step = "dedup"
    /\ \E rounds \in 0..MAX_DEDUP_RETRIES :
       \E runs \in rounds..(rounds * MAX_DEDUP_RETRIES),
          calls \in rounds..(renamed_count * (rounds + 1)),
          kept \in 0..renamed_count :
          /\ calls >= renamed_count - kept
          /\ kept < renamed_count => rounds >= 1
          /\ generator_runs' = generator_runs + runs
          /\ registry_calls' = registry_calls + calls
          /\ IF kept = 0
             THEN NextTaskDir(0)
             ELSE /\ kept_count' = kept
                  /\ process_step' = "upload"
                  /\ UNCHANGED <<renamed_count, task_dir_pos,
                                 found_any_task_dir>>
    /\ UNCHANGED <<received, task_msg, generator_output, output_dir, stored,
                   process_error, process_result, domain_task_dirs>>
    /\ UNCHANGED <<dedup_vars, legacy_vars, handler_vars, dlq_vars, batch_vars>>

\* Line 329: an error of the registry leaves _dedup_samples, in the first
\* check round or in one that follows a regeneration.
DedupStageRaises ==
    /\ process_step = "dedup"
    /\ \E rounds \in 0..MAX_DEDUP_RETRIES :
       \E runs \in rounds..(rounds * MAX_DEDUP_RETRIES),
          calls \in (rounds + 1)..(renamed_count * (rounds + 1)) :
          /\ generator_runs' = generator_runs + runs
          /\ registry_calls' = registry_calls + calls
    /\ ProcessFails("ClientError")
    /\ UNCHANGED <<task_msg, output_dir, renamed_count, kept_count, stored,
                   task_dir_pos>>
    /\ UNCHANGED <<dedup_vars, legacy_vars, handler_vars, dlq_vars, batch_vars>>

\* Lines 336-348: the kept samples of the directory are uploaded and added
\* to uploaded_samples; the loop goes on with the next directory.
UploadStage ==
    /\ process_step = "upload"
    /\ stored' = stored + kept_count
    /\ NextTaskDir(kept_count)
    /\ UNCHANGED <<received, task_msg, generator_output, output_dir,
                   generator_runs, registry_calls, process_error,
                   process_result, domain_task_dirs>>
    /\ UNCHANGED <<dedup_vars, legacy_vars, handler_vars, dlq_vars, batch_vars>>

\* Line 336: upload_samples raises after some of the samples.
UploadStageRaises ==
    /\ process_step = "upload"
    /\ \E done \in 0..(kept_count - 1) : stored' = stored + done
    /\ ProcessFails("ClientError")
    /\ UNCHANGED <<task_msg, output_dir, renamed_count, kept_count,
                   generator_runs, registry_calls, task_dir_pos>>
    /\ UNCHANGED <<dedup_vars, legacy_vars, handler_vars, dlq_vars, batch_vars>>

\* Lines 355-367 and 87-91: the output directory is removed and the
\* TaskResult returned.
ReturnTaskResult ==
    /\ process_step = "finish"
    /\ output_dir' = "missing"
    /\ process_result' = [returned |-> TRUE, samples_uploaded |-> stored]
    /\ process_step' = "returned"
    /\ UNCHANGED <<received, task_msg, generator_output, renamed_count,
                   kept_count, generator_runs, registry_calls, stored,
                   process_error>>
    /\ UNCHANGED <<domain_task_dirs, task_dir_pos, found_any_task_dir>>
    /\ UNCHANGED <<dedup_vars, legacy_vars, handler_vars, dlq_vars, batch_vars>>

NextTask ==
    \/ DefaultSeed
    \/ RunnerRun
    \/ RunnerRaises
    \/ FindNothing
    \/ FindQuestionsDir
    \/ RenameSamples
    \/ NoTaskDirectories
    \/ DedupStage
    \/ DedupStageRaises
    \/ UploadStage
    \/ UploadStageRaises
    \/ ReturnTaskResult

SpecTask == InitTask /\ [][NextTask]_vars

\* ------------------------------------- src/scripts/update_dlq_seeds.py
\* The defaults of --seed-min and --seed-max.
SeedMin == 1
SeedMax == 100000
\* random.randint(seed_min, seed_max): the two ends of the range.
RandomDlqSeeds == {SeedMin, SeedMax}

\* A message file's JSON.  has_body: the 'body' key is there; nested: the
\* body is a JSON string rather than an object; has_range: the body has
\* 'start_index' and 'num_samples'; seed = NoSeed: the body has no 'seed'
\* key.  message_id is the pair of the original id and the split number
\* (0 for a message that is no split).
DlqMessage(id, nested, s, n, seed) ==
    [message_id |-> <<id, 0>>, has_body |-> TRUE, nested |-> nested,
     has_range |-> TRUE, start_index |-> s, num_samples |-> n, seed |-> seed]

NoBodyMessage(id) ==
    [message_id |-> <<id, 0>>, has_body |-> FALSE, nested |-> FALSE,
     has_range |-> FALSE, start_index |-> 0, num_samples |-> 0,
     seed |-> NoSeed]

NoRangeMessage(id, seed) ==
    [message_id |-> <<id, 0>>, has_body |-> TRUE, nested |-> FALSE,
     has_range |-> FALSE, start_index |-> 0, num_samples |-> 0,
     seed |-> seed]

DlqMessages(id) ==
    {NoBodyMessage(id)}
        \cup {NoRangeMessage(id, seed) : seed \in {NoSeed, 42}}
        \cup {DlqMessage(id, nested, s, n, seed) :
                 nested \in BOOLEAN, s \in {0, 3},
                 n \in 0..MaxNumSamples, seed \in {NoSeed, 42}}

\* A file of the DLQ directory: "<stem><suffix>", where the stem of a split
\* message also carries the split number (part) and a timestamp.
DlqFile(stem, suffix, part, message) ==
    [stem |-> stem, suffix |-> suffix, part |-> part, message |-> message]

FileName(f) == <<f.stem, f.suffix, f.part>>

\* open(path, 'w') and dump: the file is created or overwritten.
WriteFile(files, f) ==
    {g \in files : FileName(g) # FileName(f)} \cup {f}

DlqDirectories ==
    {{}}
        \cup {{DlqFile("m1", ".json", 0, m)} : m \in DlqMessages("m1")}
        \cup {{DlqFile("m1", ".json", 0, m1), DlqFile("m2", ".json", 0, m2)} :
                 m1 \in DlqMessages("m1"), m2 \in {NoBodyMessage("m2"),
                        DlqMessage("m2", FALSE, 0, MaxNumSamples - 1, 42)}}

\* dlq_path.glob('*.json')
GlobJson(files) == {f \in files : f.suffix = ".json"}

\* What main passes to the two functions.
DlqOptions ==
    {[split |-> FALSE, split_size |-> 1, update_seed |-> FALSE,
      backup |-> b, dry_run |-> d] : b \in BOOLEAN, d \in BOOLEAN}
        \cup [split : {TRUE}, split_size : 1..MaxSplitSize,
              update_seed : BOOLEAN, backup : BOOLEAN, dry_run : BOOLEAN]

InitDlq ==
    /\ DedupIdle
    /\ LegacyIdle
    /\ HandlerIdle
    /\ ProcessIdle
    /\ BatchIdle
    /\ options \in DlqOptions
    /\ dlq_files \in DlqDirectories
    /\ dlq_before = dlq_files
    /\ json_files = <<>>
    /\ file_idx = 1
    /\ split_messages = <<>>
    /\ write_idx = 1
    /\ dlq_step = "start"
    /\ split_count = 0
    /\ total_new_messages = 0
    /\ updated_count = 0
    /\ skipped_count = 0

\* The file the loop is at, as it is in the directory now.
JsonFile == CHOOSE f \in dlq_files : FileName(f) = json_files[file_idx]

InLoop ==
    /\ dlq_step = "loop"
    /\ file_idx <= Len(json_files)

\* glob returns the message files in an order of its own.
FindJsonFiles ==
    /\ dlq_step = "start"
    /\ GlobJson(dlq_files) # {}
    /\ \E order \in [1..Cardinality(GlobJson(dlq_files)) ->
                        {FileName(f) : f \in GlobJson(dlq_files)}] :
          /\ \A i, j \in DOMAIN order : i # j => order[i] # order[j]
          /\ json_files' = order
    /\ dlq_step' = "loop"
    /\ UNCHANGED <<options, dlq_before, dlq_files, file_idx, split_messages,
                   write_idx, split_count, total_new_messages, updated_count,
                   skipped_count>>
    /\ UNCHANGED <<dedup_vars, legacy_vars, handler_vars, process_vars, batch_vars>>

\* "No JSON files found": both functions return at once.
NoJsonFiles ==
    /\ dlq_step = "start"
    /\ GlobJson(dlq_files) = {}
    /\ dlq_step' = "done"
    /\ UNCHANGED <<options, dlq_before, dlq_files, json_files, file_idx,
                   split_messages, write_idx, split_count, total_new_messages,
                   updated_count, skipped_count>>
    /\ UNCHANGED <<dedup_vars, legacy_vars, handler_vars, process_vars, batch_vars>>

\* json_file.with_suffix('.json.bak'), written when backup is set.
WithBackup(files, f, backup) ==
    IF backup THEN WriteFile(files, DlqFile(f.stem, ".json.bak", f.part, f.message))
    ELSE files

\* ---- update_seeds_in_dlq
UpdateSkips ==
    /\ ~options.split
    /\ InLoop
    /\ \/ ~JsonFile.message.has_body
       \/ JsonFile.message.seed = NoSeed
    /\ skipped_count' = skipped_count + 1
    /\ file_idx' = file_idx + 1
    /\ UNCHANGED <<options, dlq_before, dlq_files, json_files, split_messages,
                   write_idx, dlq_step, split_count, total_new_messages,
                   updated_count>>
    /\ UNCHANGED <<dedup_vars, legacy_vars, handler_vars, process_vars, batch_vars>>

\* dry_run: the change is only printed; the file still counts as updated.
WouldUpdate ==
    /\ ~options.split
    /\ InLoop
    /\ JsonFile.message.has_body
    /\ JsonFile.message.seed # NoSeed
    /\ options.dry_run
    /\ updated_count' = updated_count + 1
    /\ file_idx' = file_idx + 1
    /\ UNCHANGED <<options, dlq_before, dlq_files, json_files, split_messages,
                   write_idx, dlq_step, split_count, total_new_messages,
                   skipped_count>>
    /\ UNCHANGED <<dedup_vars, legacy_vars, handler_vars, process_vars, batch_vars>>

UpdateSeed ==
    /\ ~options.split
    /\ InLoop
    /\ JsonFile.message.has_body
    /\ JsonFile.message.seed # NoSeed
    /\ ~options.dry_run
    /\ \E new_seed \in RandomDlqSeeds :
          dlq_files' =
              WriteFile(WithBackup(dlq_files, JsonFile, options.backup),
                        [JsonFile EXCEPT !.message.seed = new_seed])
    /\ updated_count' = updated_count + 1
    /\ file_idx' = file_idx + 1
    /\ UNCHANGED <<options, dlq_before, json_files, split_messages,
                   write_idx, dlq_step, split_count, total_new_messages,
                   skipped_count>>
    /\ UNCHANGED <<dedup_vars, legacy_vars, handler_vars, process_vars, batch_vars>>

\* ---- split_messages_in_dlq
\* Ceiling division, as line 213 writes it.
NumSplits(num_samples, split_size) ==
    (num_samples + split_size - 1) \div split_size

\* The i-th (from 0) split of a message: lines 229-248.
SplitMessage(message, i, split_size, seed) ==
    [message EXCEPT
        !.message_id = <<message.message_id[1], i + 1>>,
        !.nested = FALSE,
        !.start_index = message.start_index + (i * split_size),
        !.num_samples = IF split_size <= message.num_samples - (i * split_size)
                        THEN split_size
                        ELSE message.num_samples - (i * split_size),
        !.seed = seed]

NeedsSplit(message) ==
    /\ message.has_body
    /\ message.has_range
    /\ message.num_samples > options.split_size

SplitSkips ==
    /\ options.split
    /\ InLoop
    /\ ~NeedsSplit(JsonFile.message)
    /\ skipped_count' = skipped_count + 1
    /\ file_idx' = file_idx + 1
    /\ UNCHANGED <<options, dlq_before, dlq_files, json_files, split_messages,
                   write_idx, dlq_step, split_count, total_new_messages,
                   updated_count>>
    /\ UNCHANGED <<dedup_vars, legacy_vars, handler_vars, process_vars, batch_vars>>

\* A dry run that still writes the backup file.
WouldSplit_WritesBackup ==
    /\ options.split
    /\ InLoop
    /\ NeedsSplit(JsonFile.message)
    /\ options.dry_run
    /\ dlq_files' = WithBackup(dlq_files, JsonFile, options.backup)
    /\ file_idx' = file_idx + 1
    /\ UNCHANGED <<options, dlq_before, json_files, split_messages,
                   write_idx, dlq_step, split_count, total_new_messages,
                   updated_count, skipped_count>>
    /\ UNCHANGED <<dedup_vars, legacy_vars, handler_vars, process_vars, batch_vars>>

\* dry_run: the split is only printed.
WouldSplit ==
    /\ options.split
    /\ InLoop
    /\ NeedsSplit(JsonFile.message)
    /\ options.dry_run
    /\ file_idx' = file_idx + 1
    /\ UNCHANGED <<options, dlq_before, dlq_files, json_files, split_messages,
                   write_idx, dlq_step, split_count, total_new_messages,
                   updated_count, skipped_count>>
    /\ UNCHANGED <<dedup_vars, legacy_vars, handler_vars, process_vars, batch_vars>>

\* The backup and the list of split messages; with update_seed every split
\* draws a seed, without it every split keeps the body's seed key as it is.
GenerateSplits ==
    /\ options.split
    /\ InLoop
    /\ NeedsSplit(JsonFile.message)
    /\ ~options.dry_run
    /\ dlq_files' = WithBackup(dlq_files, JsonFile, options.backup)
    /\ LET message == JsonFile.message
           num_splits == NumSplits(message.num_samples, options.split_size)
       IN  \E seeds \in [1..num_splits ->
                            IF options.update_seed THEN RandomDlqSeeds
                            ELSE {message.seed}] :
              split_messages' =
                  [i \in 1..num_splits |->
                      SplitMessage(message, i - 1, options.split_size, seeds[i])]
    /\ write_idx' = 1
    /\ dlq_step' = "save"
    /\ UNCHANGED <<options, dlq_before, json_files, file_idx, split_count,
                   total_new_messages, updated_count, skipped_count>>
    /\ UNCHANGED <<dedup_vars, legacy_vars, handler_vars, process_vars, batch_vars>>

\* "<timestamp>_<message_id>.json" of a split message.
SplitFile(split_msg) ==
    DlqFile(split_msg.message_id[1], ".json", split_msg.message_id[2], split_msg)

SaveSplit ==
    /\ dlq_step = "save"
    /\ write_idx <= Len(split_messages)
    /\ split_messages[write_idx].seed # NoSeed
    /\ dlq_files' = WriteFile(dlq_files, SplitFile(split_messages[write_idx]))
    /\ write_idx' = write_idx + 1
    /\ UNCHANGED <<options, dlq_before, json_files, file_idx, split_messages,
                   dlq_step, split_count, total_new_messages, updated_count,
                   skipped_count>>
    /\ UNCHANGED <<dedup_vars, legacy_vars, handler_vars, process_vars, batch_vars>>

\* The "Created ..." line reads split_msg['body']['seed'] after the file is
\* written: a body without the key raises KeyError, which the handler of
\* the loop body counts as a skipped file.
SaveSplitRaises ==
    /\ dlq_step = "save"
    /\ write_idx <= Len(split_messages)
    /\ split_messages[write_idx].seed = NoSeed
    /\ dlq_files' = WriteFile(dlq_files, SplitFile(split_messages[write_idx]))
    /\ skipped_count' = skipped_count + 1
    /\ split_messages' = <<>>
    /\ write_idx' = 1
    /\ file_idx' = file_idx + 1
    /\ dlq_step' = "loop"
    /\ UNCHANGED <<options, dlq_before, json_files, split_count,
                   total_new_messages, updated_count>>
    /\ UNCHANGED <<dedup_vars, legacy_vars, handler_vars, process_vars, batch_vars>>

\* json_file.rename(json_file.with_suffix('.json.original'))
RenameOriginal ==
    /\ dlq_step = "save"
    /\ write_idx > Len(split_messages)
    /\ dlq_files' =
           WriteFile(dlq_files \ {JsonFile},
                     DlqFile(JsonFile.stem, ".json.original", JsonFile.part,
                             JsonFile.message))
    /\ split_count' = split_count + 1
    /\ total_new_messages' = total_new_messages + Len(split_messages)
    /\ split_messages' = <<>>
    /\ write_idx' = 1
    /\ file_idx' = file_idx + 1
    /\ dlq_step' = "loop"
    /\ UNCHANGED <<options, dlq_before, json_files, updated_count,
                   skipped_count>>
    /\ UNCHANGED <<dedup_vars, legacy_vars, handler_vars, process_vars, batch_vars>>

\* The loop over json_files is over: the function returns its counts.
DlqReturns ==
    /\ dlq_step = "loop"
    /\ file_idx > Len(json_files)
    /\ dlq_step' = "done"
    /\ UNCHANGED <<options, dlq_before, dlq_files, json_files, file_idx,
                   split_messages, write_idx, split_count, total_new_messages,
                   updated_count, skipped_count>>
    /\ UNCHANGED <<dedup_vars, legacy_vars, handler_vars, process_vars, batch_vars>>

NextDlq ==
    \/ FindJsonFiles
    \/ NoJsonFiles
    \/ UpdateSkips
    \/ WouldUpdate
    \/ UpdateSeed
    \/ SplitSkips
    \/ WouldSplit
    \/ GenerateSplits
    \/ SaveSplit
    \/ SaveSplitRaises
    \/ RenameOriginal
    \/ DlqReturns

SpecDlq == InitDlq /\ [][NextDlq]_vars

\* ------------------------------- _batch_regenerate, statement by statement
\* The call is given up to MaxCandidates duplicates, whose directories exist.
InitBatch ==
    /\ DedupIdle
    /\ LegacyIdle
    /\ HandlerIdle
    /\ ProcessIdle
    /\ DlqIdle
    /\ \E n \in 1..MaxCandidates :
          /\ duplicate_ids = [i \in 1..n |-> FirstMessage.start_index + i - 1]
          /\ target_dirs \in [{FirstMessage.start_index + i - 1 : i \in 1..n} -> Hashes]
    /\ batch_attempt = 0
    /\ retry_seed = 0
    /\ scratch = {}
    /\ created = {}
    /\ retry_dirs = <<>>
    /\ install_idx = 1
    /\ leaving = "none"
    /\ batch_step = "loop"

BatchFrame ==
    UNCHANGED <<dedup_vars, legacy_vars, handler_vars, process_vars, dlq_vars>>

\* Lines 122-124: the next attempt draws its seed.
StartAttempt ==
    /\ batch_step = "loop"
    /\ batch_attempt < MAX_DEDUP_RETRIES
    \* random.randint(1, 2**31 - 1) of line 123; two attempts can draw the
    \* same seed, and then name the same scratch directory.
    /\ \E seed \in {1, 2147483647} : retry_seed' = seed
    /\ retry_dirs' = <<>>
    /\ install_idx' = 1
    /\ leaving' = "none"
    /\ batch_step' = "run"
    /\ UNCHANGED <<duplicate_ids, target_dirs, batch_attempt, scratch, created>>
    /\ BatchFrame

\* Line 137: the generator returns; it has made its output directory, or it
\* has returned without leaving one.
RetryRunnerRun ==
    /\ batch_step = "run"
    /\ \E made \in BOOLEAN :
          /\ scratch' = IF made THEN scratch \cup {retry_seed} ELSE scratch
          /\ created' = IF made THEN created \cup {retry_seed} ELSE created
    /\ batch_step' = "find"
    /\ UNCHANGED <<duplicate_ids, target_dirs, batch_attempt, retry_seed, retry_dirs,
                   install_idx, leaving>>
    /\ BatchFrame

\* Line 137 raises, before or after the output directory was made.
RetryRunnerRaises ==
    /\ batch_step = "run"
    /\ \E made \in BOOLEAN :
          /\ scratch' = IF made THEN scratch \cup {retry_seed} ELSE scratch
          /\ created' = IF made THEN created \cup {retry_seed} ELSE created
    /\ leaving' = "except"
    /\ batch_step' = "finally"
    /\ UNCHANGED <<duplicate_ids, target_dirs, batch_attempt, retry_seed, retry_dirs,
                   install_idx>>
    /\ BatchFrame

\* Lines 140-143: no questions directory (always so when retry_output_dir
\* does not exist), "continue".
RetryNoOutput ==
    /\ batch_step = "find"
    /\ leaving' = "continue"
    /\ batch_step' = "finally"
    /\ UNCHANGED <<duplicate_ids, target_dirs, batch_attempt, retry_seed, scratch,
                   created, retry_dirs, install_idx>>
    /\ BatchFrame

\* Lines 145-150: every sample directory of the output, in order; the
\* generator can leave fewer than the duplicates it was asked for, as many,
\* or more (here: up to one more).
CollectNewSampleDirs ==
    /\ batch_step = "find"
    /\ retry_seed \in scratch
    /\ retry_dirs' \in SeqsUpTo(RegenContents, 0, Len(duplicate_ids) + 1)
    /\ install_idx' = 1
    /\ batch_step' = "install"
    /\ UNCHANGED <<duplicate_ids, target_dirs, batch_attempt, retry_seed, scratch,
                   created, leaving>>
    /\ BatchFrame

\* Lines 153-161, one iteration: the duplicate's directory is removed and the
\* regenerated one of the same position, if there is one, renamed onto it.
InstallOne ==
    /\ batch_step = "install"
    /\ install_idx <= Len(duplicate_ids)
    /\ target_dirs' =
          [target_dirs EXCEPT ![duplicate_ids[install_idx]] =
              IF install_idx <= Len(retry_dirs) THEN retry_dirs[install_idx]
              ELSE Absent]
    /\ install_idx' = install_idx + 1
    /\ UNCHANGED <<duplicate_ids, batch_attempt, retry_seed, scratch, created,
                   retry_dirs, leaving, batch_step>>
    /\ BatchFrame

\* Lines 156-159 and 165: the rename raises after the old directory went.
RenameRaises ==
    /\ batch_step = "install"
    /\ install_idx <= Len(duplicate_ids)
    /\ install_idx <= Len(retry_dirs)
    /\ target_dirs' = [target_dirs EXCEPT ![duplicate_ids[install_idx]] = Absent]
    /\ leaving' = "except"
    /\ batch_step' = "finally"
    /\ UNCHANGED <<duplicate_ids, batch_attempt, retry_seed, scratch, created,
                   retry_dirs, install_idx>>
    /\ BatchFrame

\* Line 163: "return  # Success".
ReturnSuccess ==
    /\ batch_step = "install"
    /\ install_idx > Len(duplicate_ids)
    /\ leaving' = "return"
    /\ batch_step' = "finally"
    /\ UNCHANGED <<duplicate_ids, target_dirs, batch_attempt, retry_seed, scratch,
                   created, retry_dirs, install_idx>>
    /\ BatchFrame

\* Mutant: the scratch directory is removed only when the attempt failed.
RetryFinally_OnFailureOnly ==
    /\ batch_step = "finally"
    /\ scratch' = IF leaving = "return" THEN scratch ELSE scratch \ {retry_seed}
    /\ IF leaving = "return"
       THEN /\ batch_step' = "returned"
            /\ UNCHANGED batch_attempt
       ELSE /\ batch_step' = "loop"
            /\ batch_attempt' = batch_attempt + 1
    /\ UNCHANGED <<duplicate_ids, target_dirs, retry_seed, created, retry_dirs,
                   install_idx, leaving>>
    /\ BatchFrame

\* Lines 167-169: the finally clause removes retry_output_dir on the way out
\* of the try block, whichever way that is; then the function returns or the
\* loop goes on.
RetryFinally ==
    /\ batch_step = "finally"
    /\ scratch' = scratch \ {retry_seed}
    /\ IF leaving = "return"
       THEN /\ batch_step' = "returned"
            /\ UNCHANGED batch_attempt
       ELSE /\ batch_step' = "loop"
            /\ batch_attempt' = batch_attempt + 1
    /\ UNCHANGED <<duplicate_ids, target_dirs, retry_seed, created, retry_dirs,
                   install_idx, leaving>>
    /\ BatchFrame

\* Lines 171-176: the attempts are used up; the duplicates' directories go.
AttemptsExhausted ==
    /\ batch_step = "loop"
    /\ batch_attempt >= MAX_DEDUP_RETRIES
    /\ target_dirs' = RemoveDirs(target_dirs, Range(duplicate_ids))
    /\ leaving' = "exhausted"
    /\ batch_step' = "returned"
    /\ UNCHANGED <<duplicate_ids, batch_attempt, retry_seed, scratch, created,
                   retry_dirs, install_idx>>
    /\ BatchFrame

NextBatch ==
    \/ StartAttempt
    \/ RetryRunnerRun
    \/ RetryRunnerRaises
    \/ RetryNoOutput
    \/ CollectNewSampleDirs
    \/ InstallOne
    \/ RenameRaises
    \/ ReturnSuccess
    \/ RetryFinally
    \/ AttemptsExhausted

SpecBatch == InitBatch /\ [][NextBatch]_vars

\* ------------------------------------------------- what the claims read
\* The directory of id holds a metadata.json with a non-empty param_hash.
HasHash(t, id) == dirs[t][id] \in Hashes

DirHash(t, id) == dirs[t][id]

\* The directory of id exists and shows no param_hash.
ShowsNoHash(t, id) == dirs[t][id] \in {NoMetadata, Empty, ""}

\* The codes dedup.py line 58 names.
Throttling == {"ProvisionedThroughputExceededException", "ThrottlingException"}

DedupEnabled(t) == task[t].dedup /\ dedup_table_name

\* The check_and_register calls of invocation t that returned True: an
\* accepted id keeps the directory whose hash it was accepted with, up to
\* the upload.
TrueCalls(t) ==
    {Item(task[t].type, DirHash(t, id), id) :
        id \in {x \in Range(unique_samples[t]) : HasHash(t, x)}}
    \cup {Item(task[t].type, uploaded[t][i].content, uploaded[t][i].sample_id) :
            i \in {k \in 1..Len(uploaded[t]) :
                      DedupEnabled(t) /\ uploaded[t][k].content \in Hashes}}

\* The calls of t that returned False in the running round, as long as the
\* directories of its duplicates have not been touched by a regeneration.
FalseCalls(t) ==
    IF pc[t] \in {"check", "put_item", "get_item"}
       \/ (pc[t] = "regenerate" /\ regen_attempt[t] = 0)
    THEN {Item(task[t].type, DirHash(t, id), id) :
             id \in {x \in Range(duplicates[t]) : HasHash(t, x)}}
    ELSE {}

Calls(t) ==
    {[item |-> c, result |-> TRUE] : c \in TrueCalls(t)}
    \cup {[item |-> c, result |-> FALSE] : c \in FalseCalls(t)}

Owner(item) == GetSampleId(registry, item.generator_name, item.param_hash)

\* The invocation is over: an exception left it, or the loop over the
\* *_task directories has handed over the last of them.
Terminated(t) ==
    \/ pc[t] = "failed"
    \/ pc[t] = "done" /\ task_dir_idx[t] = Len(later_dirs[t])

\* ------------------------------------------------------------------ C1
\* C1: two calls of check_and_register on the same (generator_name,
\* param_hash) with distinct sample ids never both return True, whatever the
\* interleaving of their put_item and get_item steps; when the key is owned
\* by one of the two (its insert landed first), that one returned True and
\* the other False.  A call returned True exactly for the id that owns the
\* record of the key.
C1_Exclusive ==
    LET calls == UNION {Calls(t) : t \in Tasks}
    IN  /\ \A a \in calls, b \in calls :
            (SameKey(a.item, b.item) /\ a.item.sample_id # b.item.sample_id)
            => /\ ~ (a.result /\ b.result)
               /\ Owner(a.item) \in {a.item.sample_id, b.item.sample_id}
                  => /\ a.result = (Owner(a.item) = a.item.sample_id)
                     /\ b.result = (Owner(b.item) = b.item.sample_id)
        /\ \A a \in calls :
               /\ a.result => Owner(a.item) = a.item.sample_id
               /\ ~ a.result => Owner(a.item) \notin {NoSampleId, a.item.sample_id}

C1_Witness ==
    \E t \in Tasks, u \in Tasks :
    \E a \in TrueCalls(t), b \in FalseCalls(u) :
        SameKey(a, b) /\ a.sample_id # b.sample_id /\ t # u

\* ------------------------------------------------------------------ C2
RegistryKeysUnique ==
    \A r \in registry, q \in registry : SameKey(r, q) => r = q

\* C2: the registry holds at most one record per (generator_name,
\* param_hash), and a record, once written, is never changed or removed.
C2_FirstWriterWins ==
    /\ []RegistryKeysUnique
    /\ [][\A r \in registry : r \in registry']_vars

\* A second writer met the record of the first.
C2_Witness ==
    \E t \in Tasks :
        /\ pc[t] = "get_item"
        /\ Owner(CurrentItem(t)) # call[t].sample_id

\* ------------------------------------------------------------------ C3
\* C3: two calls of check_and_register with the same (generator_name,
\* param_hash, sample_id) return the same answer, so True both times once
\* the first returned True, and the registry holds exactly one record for
\* the key.
C3_Idempotent ==
    LET calls == [t \in Tasks |-> Calls(t)]
    IN  \A t \in Tasks : \A u \in Tasks \ {t} :
        \A a \in calls[t], b \in calls[u] :
            a.item = b.item
            => /\ a.result = b.result
               /\ a.result =>
                    Cardinality({r \in registry : SameKey(r, a.item)}) = 1

C3_Witness ==
    \E t \in Tasks, u \in Tasks :
        t # u /\ TrueCalls(t) \cap TrueCalls(u) # {}

\* ------------------------------------------------------------------ C4
\* C4 as claimed: no two sample directories with the same (generator,
\* param_hash) are both handed to the upload step.
C4_NoTwoDirectories ==
    \A t \in Tasks, u \in Tasks :
    \A i \in 1..Len(uploaded[t]), j \in 1..Len(uploaded[u]) :
        (/\ DedupEnabled(t) /\ DedupEnabled(u)
         /\ <<t, i>> # <<u, j>>
         /\ task[t].type = task[u].type
         /\ uploaded[t][i].content \in Hashes
         /\ uploaded[t][i].content = uploaded[u][j].content)
        => FALSE

\* C4, amended: with task.dedup set and a registry table configured, no two
\* sample directories with distinct sample ids that carry the same
\* (generator, param_hash) are both handed to the upload step.
C4_NoTwoSampleIds ==
    \A t \in Tasks, u \in Tasks :
    \A i \in 1..Len(uploaded[t]), j \in 1..Len(uploaded[u]) :
        (/\ DedupEnabled(t) /\ DedupEnabled(u)
         /\ task[t].type = task[u].type
         /\ uploaded[t][i].content \in Hashes
         /\ uploaded[t][i].content = uploaded[u][j].content)
        => uploaded[t][i].sample_id = uploaded[u][j].sample_id

\* Two invocations of one generator with distinct sample ids met on one
\* hash: one has uploaded the sample that owns it, the other found its
\* directory a duplicate in every round (the registry holds no other item),
\* dropped it and hands nothing to the upload.
C4_Witness ==
    \E t \in Tasks, u \in Tasks :
        /\ t # u /\ DedupEnabled(t) /\ DedupEnabled(u)
        /\ task[t].type = task[u].type
        /\ task[t].start_index # task[u].start_index
        /\ Len(uploaded[t]) = 1
        /\ uploaded[t][1].content \in Hashes
        /\ registry = {Item(task[t].type, uploaded[t][1].content,
                            uploaded[t][1].sample_id)}
        /\ pc[u] = "done"
        /\ Len(renamed[u]) = 1
        /\ dirs[u][renamed[u][1]] = Absent
        /\ uploaded[u] = <<>>

\* ------------------------------------------------------------------ C5
\* Every id that is returned (and uploaded) with a param_hash owns the
\* record of that hash.
OwnsItsHash(t) ==
    /\ pc[t] = "returned" =>
          \A id \in Range(result_ids[t]) :
              HasHash(t, id) => Item(task[t].type, DirHash(t, id), id) \in registry
    /\ (pc[t] = "done" /\ task[t].dedup) =>
          \A i \in 1..Len(uploaded[t]) :
              uploaded[t][i].content \in Hashes =>
                  Item(task[t].type, uploaded[t][i].content,
                       uploaded[t][i].sample_id) \in registry

\* An id whose directory shows no param_hash is accepted by the step that
\* reads the directory, and that step makes no registry call.
NoHashNoRegistry(t) ==
    (/\ pc[t] = "check" /\ idx[t] > 1
     /\ ShowsNoHash(t, pending[t][idx[t] - 1]))
    => /\ pending[t][idx[t] - 1] \in Range(unique_samples[t])
       /\ last_call[t] = "none"

\* C5 as claimed, for every return of _dedup_samples.
C5_OwnershipAlways ==
    \A t \in Tasks : OwnsItsHash(t) /\ NoHashNoRegistry(t)

\* C5, amended: when a registry table is configured, every id returned by
\* _dedup_samples whose directory has a param_hash h has a record
\* (task.type, h) with its sample_id; an id whose directory shows no
\* param_hash is accepted without a registry call.
C5_OwnershipWhenConfigured ==
    \A t \in Tasks :
        /\ dedup_table_name => OwnsItsHash(t)
        /\ NoHashNoRegistry(t)

\* An invocation returned an id that owns its hash while another one holds
\* an accepted id whose directory shows no param_hash.
C5_Witness ==
    \E t \in Tasks, u \in Tasks :
        /\ pc[t] = "returned" /\ dedup_table_name
        /\ \E id \in Range(result_ids[t]) : HasHash(t, id)
        /\ \E id \in Range(unique_samples[u]) : ShowsNoHash(u, id)

\* ------------------------------------------------------------------ C6
NoRepeats(s) == \A i \in 1..Len(s), j \in 1..Len(s) : s[i] = s[j] => i = j

\* C6: _dedup_samples makes at most MAX_DEDUP_RETRIES regeneration rounds
\* and MAX_DEDUP_RETRIES + 1 check rounds and never blocks before it returns
\* or raises; on return every input id is either in the returned list or
\* dropped (not returned, its directory removed), and the returned list has
\* no repeated id, only input ids, and at most as many ids as the input.
C6_Converges ==
    \A t \in Tasks :
        /\ total_retries[t] <= MAX_DEDUP_RETRIES
        /\ round_num[t] + 1 <= MAX_DEDUP_RETRIES + 1
        /\ regen_attempt[t] < MAX_DEDUP_RETRIES
        /\ ~ Terminated(t) => ENABLED TaskNext(t)
        /\ pc[t] = "returned" =>
              /\ NoRepeats(result_ids[t])
              /\ Range(result_ids[t]) \subseteq Range(renamed[t])
              /\ Len(result_ids[t]) <= Len(renamed[t])
              /\ \A id \in Range(renamed[t]) :
                    id \in Range(result_ids[t]) <=> dirs[t][id] # Absent

\* A return after the last regeneration round: of two input ids one is
\* returned and the other dropped.
C6_Witness ==
    \E t \in Tasks :
        /\ pc[t] = "returned"
        /\ total_retries[t] = MAX_DEDUP_RETRIES
        /\ Len(renamed[t]) = 2
        /\ Len(result_ids[t]) = 1
        /\ \E id \in Range(renamed[t]) : dirs[t][id] = Absent

\* ------------------------------------------------------------------ C7
FinalRoundDropped(t) ==
    /\ pc[t] = "returned"
    /\ round_num[t] = MAX_DEDUP_RETRIES
    /\ duplicates[t] # <<>>

\* C7: when the check of round MAX_DEDUP_RETRIES still finds duplicates,
\* their directories are deleted, none of them is returned or among the
\* samples the next step hands to the upload, and that step calls neither
\* the generator nor the registry.
C7_FinalRoundDrop ==
    /\ [](\A t \in Tasks :
            /\ round_num[t] = MAX_DEDUP_RETRIES => pc[t] # "regenerate"
            /\ FinalRoundDropped(t) =>
                  /\ \A id \in Range(duplicates[t]) :
                        /\ dirs[t][id] = Absent
                        /\ id \notin Range(result_ids[t])
                  /\ total_retries[t] = MAX_DEDUP_RETRIES)
    /\ [][\A t \in Tasks :
            (FinalRoundDropped(t) /\ pc'[t] # pc[t])
            => /\ pc'[t] = "done"
               /\ registry' = registry /\ dirs' = dirs
               /\ \A id \in Range(duplicates[t]) :
                     \A i \in (Len(uploaded[t]) + 1)..Len(uploaded'[t]) :
                         uploaded'[t][i].sample_id # id]_vars

C7_Witness ==
    \E t \in Tasks : FinalRoundDropped(t) /\ dirs[t][duplicates[t][1]] = Absent

\* ------------------------------------------------------------------ C8
BackoffSoFar(t) ==
    /\ call[t].attempt <= MAX_THROTTLE_RETRIES
    /\ pc[t] = "put_item" => call[t].attempt < MAX_THROTTLE_RETRIES
    /\ call[t].slept = SubSeq(<<1, 2, 4>>, 1, call[t].attempt)

\* C8: one call attempts put_item at most MAX_THROTTLE_RETRIES times, sleeps
\* 2^a seconds after the throttling of attempt a, raises the throttling
\* error once every attempt was throttled, and a throttled attempt writes
\* no record.
C8_ThrottleBound ==
    /\ [](\A t \in Tasks :
            /\ BackoffSoFar(t)
            /\ call[t].attempt = MAX_THROTTLE_RETRIES =>
                  pc[t] = "failed" /\ error[t] \in Throttling)
    /\ [][\A t \in Tasks :
            call'[t].attempt > call[t].attempt => registry' = registry]_vars

C8_Witness ==
    \E t \in Tasks :
        /\ pc[t] = "failed" /\ error[t] = "ThrottlingException"
        /\ call[t].slept = <<1, 2, 4>>

\* ------------------------------------------------------------------ C9
\* C9 as claimed: a throttling error surfaces only after it was retried up
\* to the bound, whether put_item or get_item met it.
C9_EveryThrottleRetried ==
    \A t \in Tasks :
        (pc[t] = "failed" /\ error[t] \in Throttling)
        => Len(call[t].slept) = MAX_THROTTLE_RETRIES

\* ----------------------------------------------------------------- C10
OtherError(code) ==
    code \notin {"none", "ConditionalCheckFailedException"} \cup Throttling

\* C10: a registry error that is neither the conflict nor throttling ends
\* the call where it occurs: no sleep and no registry call follow it, and
\* the invocation fails with it and takes no further step, so that nothing
\* is returned or uploaded after it and no later directory is processed.
C10_OtherErrorPropagates ==
    \A t \in Tasks :
        OtherError(call[t].outcome)
        => /\ pc[t] = "failed" /\ error[t] = call[t].outcome
           /\ Len(call[t].slept) = call[t].attempt
           /\ call[t].attempt < MAX_THROTTLE_RETRIES
           /\ last_call[t] \in {"put_item", "get_item"}
           /\ ~ ENABLED TaskNext(t)

\* The error came after a throttled attempt that was retried.
C10_Witness ==
    \E t \in Tasks :
        /\ OtherError(call[t].outcome) /\ pc[t] = "failed"
        /\ call[t].attempt > 0

\* ----------------------------------------------------------------- C11
ScenarioB == Item(FirstMessage.type, ScenarioHashes[2], OtherOwner) \in registry

\* Scenario A: no hash is registered, and the generator wrote one
\* domain-task directory.
ScenarioA == ~ ScenarioB /\ later_dirs["t1"] = <<>>

ScenarioItems ==
    {Item(FirstMessage.type, ScenarioHashes[i], 9 + i) : i \in 1..3}

UploadedIds(t) == [i \in 1..Len(uploaded[t]) |-> uploaded[t][i].sample_id]

\* C11 (Scenario A): the generator is never invoked for regeneration; the
\* dedup stage returns 10, 11, 12; the three are handed to upload in that
\* order with the directories the generator produced; and the registry
\* gains, for the task's generator, exactly the three records owned by 10,
\* 11 and 12.
C11_ScenarioA ==
    ScenarioA =>
        /\ renamed["t1"] = <<10, 11, 12>>
        /\ pc["t1"] # "regenerate" /\ last_call["t1"] # "generator"
        /\ total_retries["t1"] = 0 /\ round_num["t1"] = 0
        /\ {r \in registry : r.generator_name = FirstMessage.type} \subseteq ScenarioItems
        /\ pc["t1"] = "returned" =>
              /\ result_ids["t1"] = <<10, 11, 12>>
              /\ {r \in registry : r.generator_name = FirstMessage.type} = ScenarioItems
        /\ pc["t1"] = "done" =>
              /\ UploadedIds("t1") = <<10, 11, 12>>
              /\ \A i \in 1..3 : uploaded["t1"][i].content = ScenarioHashes[i]
              /\ {r \in registry : r.generator_name = FirstMessage.type} = ScenarioItems

\* Scenario A ran to the upload.
C11_Witness ==
    /\ ScenarioA /\ pc["t1"] = "done"
    /\ UploadedIds("t1") = <<10, 11, 12>>
    /\ Cardinality(registry) >= 3

\* ----------------------------------------------------------------- C12
\* The first regeneration of Scenario B left, at slot 11, a directory whose
\* hash nobody else has registered.
FreshAt11 ==
    /\ ScenarioB
    /\ round_num["t1"] = 1
    /\ pc["t1"] \in {"check", "put_item", "get_item", "returned"}
    /\ dirs["t1"][11] \in Hashes
    /\ Owner(Item(FirstMessage.type, dirs["t1"][11], 11)) \in {NoSampleId, 11}

\* C12 (Scenario B): 10 and 12 are accepted and 11 is the one duplicate;
\* after the regeneration slot 11 no longer holds the generator's first
\* output; when the regenerated directory has a fresh hash no second
\* regeneration round follows, and the dedup stage returns the three ids
\* 10, 11, 12 with 11 owning its new hash; the record owned by 999 is
\* never changed.
C12_ScenarioB ==
    /\ [](ScenarioB =>
            /\ pc["t1"] = "regenerate" =>
                  /\ duplicates["t1"] = <<11>>
                  /\ unique_samples["t1"] = <<10, 12>>
            /\ (round_num["t1"] >= 1 /\ pc["t1"] # "regenerate") =>
                  dirs["t1"][11] # ScenarioHashes[2]
            /\ FreshAt11 =>
                  /\ total_retries["t1"] = 1
                  /\ pending["t1"] = <<11>>
                  /\ pc["t1"] = "returned" =>
                        /\ Range(result_ids["t1"]) = {10, 11, 12}
                        /\ Len(result_ids["t1"]) = 3
                        /\ Item(FirstMessage.type, dirs["t1"][11], 11) \in registry)
    /\ [][(FreshAt11 /\ pc'["t1"] # pc["t1"]) =>
              /\ pc'["t1"] # "regenerate"
              /\ pc'["t1"] \in {"check", "put_item", "get_item", "returned"} => FreshAt11'
              /\ pc["t1"] = "returned" =>
                    Range(UploadedIds("t1")') = {10, 11, 12}]_vars
    /\ [][ScenarioB => ScenarioB']_vars

\* Scenario B returned after one regeneration round with a fresh hash.
C12_Witness ==
    /\ FreshAt11 /\ pc["t1"] = "returned"
    /\ total_retries["t1"] = 1
    /\ result_ids["t1"] = <<10, 12, 11>>

\* ----------------------------------------------------------------- C13
\* The directory holds a file of a recognized artifact extension.
Recognized(entry) ==
    entry.kind = "dir" /\ \E f \in Range(entry.files) : f \in {"a.png", "b.mp4", "c.txt"}

TrailingInteger(name) == Numbers(name)[Len(Numbers(name))]

\* Listing domain-task directory d failed with an error of the file system.
ListingFailed(d) ==
    \E i \in 1..Len(listing_errors) :
        listing_errors[i].domain = d /\ listing_errors[i].error = "OSError"

\* The sample directories of domain-task directory d that are accepted.
Accepted(d) ==
    {nm \in DOMAIN generated[d].entries : Recognized(generated[d].entries[nm])}

MappingOf(d) == SelectSeq(mapping, LAMBDA m : m.domain = d)

\* The loop over the entries of domain-task directory d is over.
DomainFinished(d) ==
    \/ d < domain_idx
    \/ d = domain_idx /\ step \in {"scan", "done"}

\* C13 as claimed: in one domain-task directory that could be listed the
\* i-th directory that gets an id gets start_index + i - 1; only accepted
\* directories get one, those whose names hold a number in ascending order
\* of the trailing integer; and when the directory has been processed every
\* accepted directory has exactly one id, so that the N ids are
\* start_index .. start_index + N - 1.
C13_IdentifierAssignment ==
    \A d \in 1..Len(generated) :
        LET log == MappingOf(d)
        IN  /\ \A i \in 1..Len(log) :
                  /\ log[i].sample_id = start_index + i - 1
                  /\ log[i].name \in Accepted(d)
            /\ \A i \in 1..Len(log), j \in 1..Len(log) :
                  (/\ i < j
                   /\ Numbers(log[i].name) # <<>>
                   /\ Numbers(log[j].name) # <<>>)
                  => TrailingInteger(log[i].name) < TrailingInteger(log[j].name)
            /\ (DomainFinished(d) /\ ~ ListingFailed(d)) =>
                  /\ {log[i].name : i \in 1..Len(log)} = Accepted(d)
                  /\ Len(log) = Cardinality(Accepted(d))

\* ----------------------------------------------------------------- C14
\* C14 as claimed: no two accepted directories of one invocation get the
\* same id, and the sample_ids of the result are strictly increasing.
C14_StrictlyIncreasing ==
    /\ \A i \in 1..Len(mapping), j \in 1..Len(mapping) :
          i # j => mapping[i].sample_id # mapping[j].sample_id
    /\ task_result.returned =>
          \A i \in 1..Len(task_result.sample_ids), j \in 1..Len(task_result.sample_ids) :
              i < j => task_result.sample_ids[i] < task_result.sample_ids[j]

\* ----------------------------------------------------------------- C15
\* The loop over the entries has passed entry nm of directory d.
Processed(d, nm) ==
    \/ d < domain_idx /\ \A i \in 1..Len(listing_errors) : listing_errors[i].domain # d
    \/ d = domain_idx /\ \E i \in 1..Len(task_dirs) : i < dir_idx /\ task_dirs[i] = nm

\* C15 as claimed: a sample directory without a recognized file is gone
\* once the loop has passed it, whatever else it holds.
C15_RejectedRemoved ==
    \A d \in 1..Len(generated) :
    \A nm \in DOMAIN generated[d].entries :
        (/\ generated[d].entries[nm].kind = "dir"
         /\ ~ Recognized(generated[d].entries[nm])
         /\ Processed(d, nm))
        => tree[d].entries[nm].kind = "absent"

\* ----------------------------------------------------------------- C16
\* C16 as claimed: while a directory is uploaded, at most one file whose
\* transfer succeeded is still on disk.
C16_DeleteBeforeNextTransfer ==
    step \in {"upload", "delete"} =>
        Cardinality({f \in Range(files_to_delete) :
                        f \in Range(CurrentEntry.files)}) <= 1

\* ----------------------------------------------------------------- C17
\* C17 as claimed: once the upload of a directory has returned, none of the
\* files it counted (every file of the directory) is on disk.
C17_NoUploadedFileRemains ==
    \A i \in 1..Len(uploaded_samples) :
        /\ uploaded_samples[i].files_uploaded =
              Len(generated[mapping[i].domain].entries[mapping[i].name].files)
        /\ tree[mapping[i].domain].entries[mapping[i].name].files = <<>>

\* ----------------------------------------------------------------- C18
\* C18: when the transfer of a file fails, process_task has raised that
\* failure and takes no further step: the failed file and the files and
\* samples after it are not transferred, and no result is returned.
C18_UploadFailureFatal ==
    /\ [](raised = "upload_error" =>
            /\ step = "failed"
            /\ to_upload # <<>>
            /\ upload_count = Len(files_to_delete)
            /\ Len(uploaded_samples) < Len(mapping)
            /\ ~ task_result.returned
            /\ ~ ENABLED NextLegacy)
    /\ [][raised = "upload_error" => bucket' = bucket /\ tree' = tree]_vars

\* The second sample failed at its second file.
C18_Witness ==
    /\ raised = "upload_error"
    /\ uploaded_samples # <<>>
    /\ upload_count > 0

\* ----------------------------------------------------------------- C19
\* C19 as claimed: when handler raises ValidationError, the invocation has
\* run no generator, written nothing to the registry and uploaded nothing.
C19_ValidationBeforeEffects ==
    exception = "ValidationError" => effects = <<>>

\* ----------------------------------------------------------------- C20
\* A regeneration sub-attempt of t fails in this step.
RegenAttemptFails(t) ==
    \/ RegenGeneratorRaises(t)
    \/ RegenNoOutput(t)
    \/ RegenMoveFails(t)

\* Every directory of the batch that was sent to regeneration is gone.
BatchDropped(t) ==
    /\ pc[t] \in {"check", "returned"}
    /\ round_num[t] >= 1
    /\ pending[t] # <<>>
    /\ \A id \in Range(pending[t]) : dirs[t][id] = Absent

\* C20: a regeneration round invokes the generator at most
\* MAX_DEDUP_RETRIES times; a failed sub-attempt raises nothing, leaves the
\* registry and the accepted samples alone and is followed by another
\* attempt, or, when it was the last one, by the removal of every
\* duplicate's directory; from then on the invocation calls nothing, accepts
\* and rejects nothing more and returns exactly the samples accepted before,
\* none of them a dropped duplicate.
C20_RegenerationAbsorbed ==
    /\ [](\A t \in Tasks :
            /\ pc[t] = "regenerate" => regen_attempt[t] + 1 <= MAX_DEDUP_RETRIES
            /\ BatchDropped(t) =>
                  /\ error[t] = "none"
                  /\ Range(pending[t]) \cap Range(unique_samples[t]) = {}
                  /\ pc[t] = "returned" => result_ids[t] = unique_samples[t])
    /\ [][\A t \in Tasks :
            RegenAttemptFails(t) =>
               /\ error'[t] = "none"
               /\ registry' = registry
               /\ unique_samples'[t] = unique_samples[t]
               /\ IF regen_attempt[t] + 1 < MAX_DEDUP_RETRIES
                  THEN /\ pc'[t] = "regenerate"
                       /\ regen_attempt'[t] = regen_attempt[t] + 1
                  ELSE /\ pending'[t] = duplicates[t]
                       /\ BatchDropped(t)']_vars
    /\ [][\A t \in Tasks :
            (BatchDropped(t) /\ pc[t] = "check" /\ pc'[t] # "done")
            => /\ pc'[t] \in {"check", "returned"}
               /\ call'[t] = NoCall
               /\ error'[t] = "none"
               /\ unique_samples'[t] = unique_samples[t]
               /\ duplicates'[t] = <<>>
               /\ pending'[t] = pending[t]]_vars

\* The last sub-attempt of a round failed, the batch is dropped, and the
\* samples accepted before it are returned.
C20_Witness ==
    \E t \in Tasks :
        /\ pc[t] = "returned"
        /\ BatchDropped(t)
        /\ unique_samples[t] # <<>>
        /\ result_ids[t] = unique_samples[t]
        /\ total_retries[t] = 1

\* ----------------------------------------------------------------- C21
\* The generator of a regeneration attempt of t completes in this step and
\* leaves no sample directory: no output tree at all, or a tree from which
\* nothing is installed, so that every duplicate is without a directory.
RegenYieldsNothing(t) ==
    \/ RegenNoOutput(t)
    \/ /\ RegenInstalls(t)
       /\ \A id \in Range(duplicates[t]) : dirs'[t][id] = Absent

\* C21 as claimed: an attempt that yields no regenerated directory before
\* the last attempt of the round is followed by another attempt of the same
\* round, and drops no duplicate.
C21_ZeroOutputRetried ==
    [][\A t \in Tasks :
          (RegenYieldsNothing(t) /\ regen_attempt[t] + 1 < MAX_DEDUP_RETRIES)
          => /\ pc'[t] = "regenerate"
             /\ regen_attempt'[t] = regen_attempt[t] + 1
             /\ round_num'[t] = round_num[t]
             /\ dirs'[t] = dirs[t]]_vars

\* ----------------------------------------------------------------- C22
\* C22: a successful batch regeneration that found k directories for the D
\* duplicates leaves the i-th duplicate's directory with exactly the content
\* of the i-th regenerated directory for i <= min(k, D) and without a
\* directory for i > k; it adds no directory and changes no other one, so
\* regenerated directories beyond D are discarded; and an id without a
\* directory is never accepted, returned or uploaded.
C22_PositionalReplacement ==
    /\ [][\A t \in Tasks :
            RegenInstalls(t) =>
               LET dups == duplicates[t]
                   found == new_sample_dirs'[t]
               IN  /\ \A i \in 1..Len(dups) :
                         dirs'[t][dups[i]] =
                            IF i <= Len(found) THEN found[i] ELSE Absent
                   /\ DOMAIN dirs'[t] = DOMAIN dirs[t]
                   /\ \A id \in DOMAIN dirs[t] \ Range(dups) :
                         dirs'[t][id] = dirs[t][id]]_vars
    /\ [](\A t \in Tasks : \A id \in Range(renamed[t]) :
            dirs[t][id] = Absent =>
               /\ id \notin Range(unique_samples[t])
               /\ pc[t] \in {"returned", "upload"} => id \notin Range(result_ids[t]))
    /\ [][\A t \in Tasks :
            \A i \in (Len(uploaded[t]) + 1)..Len(uploaded'[t]) :
                dirs[t][uploaded'[t][i].sample_id] # Absent]_vars

\* Two different regenerated directories were found for three duplicates:
\* the first two slots hold them in order and the third has no directory.
C22_Witness ==
    \E t \in Tasks :
        /\ pc[t] = "check" /\ idx[t] = 1
        /\ Len(pending[t]) = 3
        /\ Len(new_sample_dirs[t]) = 2
        /\ new_sample_dirs[t][1] # new_sample_dirs[t][2]
        /\ dirs[t][pending[t][1]] = new_sample_dirs[t][1]
        /\ dirs[t][pending[t][2]] = new_sample_dirs[t][2]
        /\ dirs[t][pending[t][3]] = Absent

\* ----------------------------------------------------------------- C23
\* C23 as claimed: no sample directory of an invocation is a regenerated
\* directory without any file, and none is handed to the upload.
C23_NoEmptyInstalled ==
    \A t \in Tasks :
        /\ \A id \in DOMAIN dirs[t] : dirs[t][id] # Empty
        /\ \A i \in 1..Len(uploaded[t]) : uploaded[t][i].content # Empty

\* ----------------------------------------------------------------- C24
\* The generator left no accepted sample directory.
NoAcceptedOutput == generator_output \in {"missing", "no_domain", "no_accepted"}

\* C24: when the generator's output root is missing, has no domain-task
\* directory or has no accepted sample directory, process_task returns no
\* TaskResult, registers and uploads nothing and runs the generator at most
\* once; once the generator has run, the only step left is the one that
\* raises ValueError, after which nothing follows.
C24_NoOutputIsFatal ==
    NoAcceptedOutput =>
        /\ ~ process_result.returned
        /\ process_step # "returned"
        /\ registry_calls = 0
        /\ stored = 0
        /\ generator_runs <= 1
        /\ process_step \in {"find", "domains"} =>
              /\ ENABLED NextTask
              /\ ~ ENABLED (NextTask /\ process_step' = "raised"
                              /\ process_error' # "ValueError")
              /\ ~ ENABLED (NextTask /\ process_step' \notin {"raised", "domains"})
        /\ process_step = "raised" =>
              /\ ~ ENABLED NextTask
              /\ generator_runs = 1
              /\ process_error \in {"ValueError", "CalledProcessError"}

\* A task with dedup whose generator left only rejected directories ended
\* with ValueError.
C24_Witness ==
    /\ generator_output = "no_accepted"
    /\ output_dir = "no_accepted"
    /\ task_msg.dedup
    /\ process_step = "raised"
    /\ process_error = "ValueError"

\* ----------------------------------------------------------------- C25
\* C25 as claimed: the TaskMessage object has, at every point of
\* process_task and when it ends, the field values it was called with.
C25_MessageNeverMutated ==
    task_msg = received

\* ----------------------------------------------------------------- C26
\* C26 as claimed: when process_task has ended, by a return or by an
\* exception, the scratch output directory does not exist.
C26_ScratchReclaimed ==
    process_step \in {"returned", "raised"} => output_dir = "missing"

\* ----------------------------------------------------------------- C27
\* The split messages a finished run left for the message file of a stem.
SplitsOf(stem) ==
    {f \in dlq_files : f.stem = stem /\ f.suffix = ".json" /\ f.part > 0}

IndexRange(message) ==
    message.start_index..(message.start_index + message.num_samples - 1)

CeilDiv(n, k) == IF n % k = 0 THEN n \div k ELSE (n \div k) + 1

\* The message files of the start that carry an index range.
RangedBefore ==
    {f \in dlq_before : f.message.has_body /\ f.message.has_range}

\* C27: after split_messages_in_dlq has run (not as a dry run), a message
\* with num_samples n above split_size k has ceil(n/k) split messages whose
\* index ranges are pairwise disjoint, each of 1 to k indexes, and cover
\* exactly [start_index, start_index + n); a message with n <= k is still
\* the file it was and has no split message.
C27_SplitIsPartition ==
    (dlq_step = "done" /\ options.split /\ ~options.dry_run) =>
        \A f \in RangedBefore :
            IF f.message.num_samples > options.split_size
            THEN /\ Cardinality(SplitsOf(f.stem)) =
                        CeilDiv(f.message.num_samples, options.split_size)
                 /\ \A g, h \in SplitsOf(f.stem) :
                        g # h => IndexRange(g.message) \cap IndexRange(h.message) = {}
                 /\ \A g \in SplitsOf(f.stem) :
                        /\ g.message.num_samples >= 1
                        /\ g.message.num_samples <= options.split_size
                 /\ UNION {IndexRange(g.message) : g \in SplitsOf(f.stem)} =
                        IndexRange(f.message)
            ELSE /\ f \in dlq_files
                 /\ SplitsOf(f.stem) = {}

\* ----------------------------------------------------------------- C28
\* C28: with dry_run set, the DLQ directory always holds exactly the files,
\* with the contents, it held at the start.
C28_DryRunChangesNothing ==
    options.dry_run => dlq_files = dlq_before

\* A finished dry run over a message that a real run would have rewritten
\* or split.
C28_Witness ==
    /\ options.dry_run
    /\ dlq_step = "done"
    /\ \E f \in dlq_before :
          /\ f.message.has_body
          /\ IF options.split
             THEN f.message.has_range /\ f.message.num_samples > options.split_size
             ELSE f.message.seed # NoSeed

\* ----------------------------------------------------------------- C29
\* C29: when _dedup_samples returns with a registry configured, every id
\* of its input list that is in the returned list still has its sample
\* directory, and every id of the input that is not returned has none.
C29_ResultMatchesDirectories ==
    \A t \in Tasks :
        (pc[t] = "returned" /\ task[t].dedup /\ dedup_table_name) =>
            /\ \A i \in 1..Len(result_ids[t]) :
                  dirs[t][result_ids[t][i]] # Absent
            /\ \A i \in 1..Len(renamed[t]) :
                  (\A j \in 1..Len(result_ids[t]) : result_ids[t][j] # renamed[t][i])
                      => dirs[t][renamed[t][i]] = Absent

\* A return, after a regeneration, that keeps one id and drops another.
C29_Witness ==
    \E t \in Tasks :
        /\ pc[t] = "returned"
        /\ task[t].dedup /\ dedup_table_name
        /\ total_retries[t] >= 1
        /\ \E i, j \in 1..Len(renamed[t]) :
              /\ dirs[t][renamed[t][i]] # Absent
              /\ \E k \in 1..Len(result_ids[t]) : result_ids[t][k] = renamed[t][i]
              /\ dirs[t][renamed[t][j]] = Absent

\* ----------------------------------------------------------------- C30
\* The ids invocation t has accepted so far.
AcceptedIds(t) == {unique_samples[t][i] : i \in 1..Len(unique_samples[t])}

\* The ids the running round of t has still to look at, the one it is
\* looking at included.
StillToCheck(t) ==
    IF pc[t] \in {"check", "put_item", "get_item"}
    THEN {pending[t][i] : i \in idx[t]..Len(pending[t])}
    ELSE {}

\* C30: an accepted id is not looked at again by its invocation (it is not
\* among the ids still to check, not the subject of a registry call, and
\* not a duplicate), and no step changes its directory; a step taken while
\* an invocation regenerates changes, in that invocation's sample tree,
\* only directories of the duplicates given to _batch_regenerate.
C30_AcceptedAreFinal ==
    /\ [](\A t \in Tasks : \A id \in AcceptedIds(t) :
            /\ id \notin StillToCheck(t)
            /\ call[t] # NoCall => call[t].sample_id # id
            /\ \A i \in 1..Len(duplicates[t]) : duplicates[t][i] # id)
    /\ [][\A t \in Tasks :
            /\ \A id \in AcceptedIds(t) : dirs'[t][id] = dirs[t][id]
            /\ pc[t] = "regenerate" =>
                  \A id \in DOMAIN dirs[t] :
                      dirs'[t][id] # dirs[t][id] =>
                          \E i \in 1..Len(duplicates[t]) : duplicates[t][i] = id]_vars

\* A later round checks a regenerated directory while an id accepted in an
\* earlier round keeps the directory it was accepted with.
C30_Witness ==
    \E t \in Tasks :
        /\ round_num[t] >= 1
        /\ pc[t] = "put_item"
        /\ AcceptedIds(t) # {}
        /\ \A id \in AcceptedIds(t) : dirs[t][id] # Absent

\* ----------------------------------------------------------------- C31
\* The ids an invocation handed to the upload, in order.
HandedToUpload(t) == [i \in 1..Len(uploaded[t]) |-> uploaded[t][i].sample_id]

\* The delivery has handed over every *_task directory of its output.
Completed(t) == pc[t] = "done" /\ task_dir_idx[t] = Len(later_dirs[t])

\* C31 as stated: once the first delivery is done, the second delivery runs
\* no regeneration round, never changes the registry, and, when it is done,
\* has accepted exactly the ids the first one accepted.
C31_RedeliveryIdempotent ==
    /\ [](Completed("t1") =>
            /\ total_retries["t2"] = 0
            /\ Completed("t2") => HandedToUpload("t2") = HandedToUpload("t1"))
    /\ [][Completed("t1") => registry' = registry]_vars

\* The samples of the *_task directories ds under the ids rename_samples
\* gives them, directory after directory.
RECURSIVE AsGenerated(_, _)
AsGenerated(first, ds) ==
    IF ds = <<>> THEN <<>>
    ELSE [i \in 1..Len(Head(ds)) |->
             [sample_id |-> first + i - 1, content |-> Head(ds)[i]]]
         \o AsGenerated(first, Tail(ds))

\* The samples of the first *_task directory as the generator left them.
FirstProduced(t) ==
    [i \in 1..Cardinality(DOMAIN produced_dirs[t]) |->
        produced_dirs[t][task[t].start_index + i - 1]]

\* The first delivery is done and found no duplicate: it handed every
\* sample to the upload as the generator had left it, none replaced or
\* dropped.
FirstDeliveredOutput ==
    /\ Completed("t1")
    /\ uploaded["t1"] =
          AsGenerated(task["t1"].start_index,
                      <<FirstProduced("t1")>> \o later_dirs["t1"])

\* C31, amended: after a first delivery that found no duplicate, the second
\* delivery runs no regeneration round, never changes the registry, and,
\* when it is done, has accepted exactly the ids the first one accepted.
C31_RedeliveryWithoutDuplicates ==
    /\ [](FirstDeliveredOutput =>
            /\ total_retries["t2"] = 0
            /\ Completed("t2") => HandedToUpload("t2") = HandedToUpload("t1"))
    /\ [][FirstDeliveredOutput => registry' = registry]_vars

\* Both deliveries are done, the first without a duplicate, and the second
\* was answered by the registry for a sample the first registered.
C31_Witness ==
    /\ FirstDeliveredOutput
    /\ Completed("t2")
    /\ task["t2"].dedup /\ dedup_table_name
    /\ \E i \in 1..Len(uploaded["t2"]) :
          /\ uploaded["t2"][i].content \in Hashes
          /\ Item(task["t2"].type, uploaded["t2"][i].content,
                  uploaded["t2"][i].sample_id) \in registry

\* ----------------------------------------------------------------- C32
\* C32: when _batch_regenerate has returned, by success or by exhaustion,
\* no scratch directory it made for an attempt exists; and between two
\* attempts (after zero output or an exception) none exists either.
C32_ScratchCleaned ==
    batch_step \in {"returned", "loop"} => created \cap scratch = {}

\* A successful return in the third attempt, after an attempt that failed
\* with its scratch directory made under another seed and an attempt whose
\* generator left no directory at all.
C32_Witness ==
    /\ batch_step = "returned"
    /\ leaving = "return"
    /\ batch_attempt = 2
    /\ Cardinality(created) = 2
    /\ scratch = {}

\* ----------------------------------------------------------------- C33
\* Dedup is off for invocation t: task.dedup is false or no table is set.
DedupOff(t) == ~ task[t].dedup \/ ~ dedup_table_name

\* The samples the latest hand-over of t with dedup off passed on.
LastBatch(t) ==
    SubSeq(uploaded[t], Len(uploaded[t]) - Len(renamed[t]) + 1, Len(uploaded[t]))

\* C33: an invocation with dedup off never makes or has made a registry
\* call or run a regeneration, never stands inside the check or the
\* regeneration, and hands to the upload exactly the ids rename_samples
\* produced for the directory, in their order.
C33_DedupOffUntouched ==
    \A t \in Tasks :
        DedupOff(t) =>
            /\ last_call[t] \in {"none", "upload"}
            /\ call[t] = NoCall
            /\ total_retries[t] = 0
            /\ pc[t] \in {"start", "returned", "upload", "done"}
            /\ pc[t] \in {"returned", "upload"} => result_ids[t] = renamed[t]
            /\ pc[t] = "done" =>
                  /\ Len(uploaded[t]) >= Len(renamed[t])
                  /\ \A i \in 1..Len(renamed[t]) :
                        /\ LastBatch(t)[i].sample_id = renamed[t][i]
                        /\ LastBatch(t)[i].content = dirs[t][renamed[t][i]]

\* An invocation whose message has dedup false, with a table configured,
\* has handed the two samples of its directory to the upload, in the order
\* of their ids.
C33_Witness ==
    \E t \in Tasks :
        /\ ~ task[t].dedup
        /\ dedup_table_name
        /\ pc[t] = "done"
        /\ Len(renamed[t]) = 2
        /\ Len(uploaded[t]) = 2
        /\ uploaded[t][1].sample_id = task[t].start_index
        /\ uploaded[t][2].sample_id = task[t].start_index + 1

====
